---- MODULE Spec2Model ----
(***************************************************************************)
(* Model of the resilient remote-call wrapper of AzureClientManager        *)
(* (src/src/services/azure-client.ts): executeWithRetry, applyRateLimit,   *)
(* isRetryableError and sleep, run by several logical calls on one         *)
(* manager under the single-threaded event loop, with the facade methods,  *)
(* the connectivity probe testConnection and the records written to the    *)
(* logger (specification Spec); of the MCP server handling two JSON-RPC    *)
(* requests concurrently, with the four tools of AzureOperations that      *)
(* reach Azure through that manager (src/dist/server/mcp-server.js,        *)
(* src/src/utils/logger.ts; specification ToolSpec); of the                *)
(* configuration manager with its profiles (src/dist/config/index.js;      *)
(* specification ConfigSpec); and of the stdio loop of the server that     *)
(* reads the requests line by line from stdin (specification StdioSpec).   *)
(* LiveSpec is Spec with the fairness of the event loop, for termination.  *)
(*                                                                         *)
(* Time: `now` is what Date.now() returns.  JavaScript between two         *)
(* suspension points runs to completion, so the clock advances only while  *)
(* every call is suspended (in a timer or in the wrapped operation's I/O). *)
(* A timer set by sleep(ms) fires at its due time or later.                *)
(*                                                                         *)
(* Strings are sequences of one-character strings, so that toLowerCase and *)
(* includes are computed character by character.                           *)
(***************************************************************************)
EXTENDS Integers, Sequences, FiniteSets, TLC

(***************************************************************************)
(* Bounds of the model                                                     *)
(***************************************************************************)
\* number of logical calls issued to the manager
NumCalls == 3
\* value of Date.now() when the manager is constructed
Epoch == 1000
\* granularity of idle time passing between callers' actions
TickStep == 60
\* idle time passes in TickStep steps only up to Epoch + MaxDrift
MaxDrift == 120
\* number of calls made to the configuration manager
MaxConfigCalls == 4
\* number of lines the client writes to stdin
MaxLines == 3
\* number of pieces of text a chunk read from stdin holds at most
MaxChunk == 2

Calls == 1..NumCalls

(***************************************************************************)
(* Strings                                                                 *)
(***************************************************************************)
UpperCase == <<"A","B","C","D","E","F","G","H","I","J","K","L","M","N","O","P","Q","R","S","T","U","V","W","X","Y","Z">>
LowerCase == <<"a","b","c","d","e","f","g","h","i","j","k","l","m","n","o","p","q","r","s","t","u","v","w","x","y","z">>

\* String.prototype.toLowerCase on one character
toLowerChar(ch) ==
  IF \E i \in 1..Len(UpperCase) : UpperCase[i] = ch
    THEN LowerCase[CHOOSE i \in 1..Len(UpperCase) : UpperCase[i] = ch]
    ELSE ch

\* String.prototype.toLowerCase
toLowerCase(s) == [i \in 1..Len(s) |-> toLowerChar(s[i])]

\* String.prototype.includes
includes(s, t) ==
  \E i \in 0..(Len(s) - Len(t)) : SubSeq(s, i + 1, i + Len(t)) = t

S_ETIMEDOUT == <<"E","T","I","M","E","D","O","U","T">>
S_ECONNRESET == <<"E","C","O","N","N","R","E","S","E","T">>
S_ENOTFOUND == <<"E","N","O","T","F","O","U","N","D">>
S_ECONNREFUSED == <<"E","C","O","N","N","R","E","F","U","S","E","D">>
S_ThrottledRequest == <<"T","h","r","o","t","t","l","e","d","R","e","q","u","e","s","t">>
S_TooManyRequests == <<"T","o","o","M","a","n","y","R","e","q","u","e","s","t","s">>
S_InternalServerError == <<"I","n","t","e","r","n","a","l","S","e","r","v","e","r","E","r","r","o","r">>
S_ServiceUnavailable == <<"S","e","r","v","i","c","e","U","n","a","v","a","i","l","a","b","l","e">>
S_RequestTimeout == <<"R","e","q","u","e","s","t","T","i","m","e","o","u","t">>
S_Error == <<"E","r","r","o","r">>
S_UnknownError == <<"U","n","k","n","o","w","n"," ","e","r","r","o","r">>
S_AllRetriesFailed == <<"O","p","e","r","a","t","i","o","n"," ","f","a","i","l","e","d"," ","a","f","t","e","r"," ","a","l","l"," ","r","e","t","r","i","e","s">>
S_TryAgain == <<"S","e","r","v","i","c","e","U","n","a","v","a","i","l","a","b","l","e",":"," ","t","r","y"," ","a","g","a","i","n">>
S_BadRequest == <<"B","a","d"," ","r","e","q","u","e","s","t",":"," ","m","a","l","f","o","r","m","e","d"," ","p","a","y","l","o","a","d">>
S_ConnectTimedOut == <<"c","o","n","n","e","c","t"," ","e","t","i","m","e","d","o","u","t">>
S_ThrottledRequestError == <<"T","h","r","o","t","t","l","e","d","R","e","q","u","e","s","t","E","r","r","o","r">>
S_SlowDown == <<"s","l","o","w"," ","d","o","w","n">>
S_error == <<"e","r","r","o","r">>
S_UnknownConnectionError == <<"U","n","k","n","o","w","n"," ","c","o","n","n","e","c","t","i","o","n"," ","e","r","r","o","r">>

\* keys of the structured context of a log record
K_operationId == <<"o","p","e","r","a","t","i","o","n","I","d">>
K_attempt == <<"a","t","t","e","m","p","t">>
K_maxRetries == <<"m","a","x","R","e","t","r","i","e","s">>
K_duration == <<"d","u","r","a","t","i","o","n">>
K_error == <<"e","r","r","o","r">>
K_delay == <<"d","e","l","a","y">>
K_nextAttempt == <<"n","e","x","t","A","t","t","e","m","p","t">>
K_totalDuration == <<"t","o","t","a","l","D","u","r","a","t","i","o","n">>
K_attempts == <<"a","t","t","e","m","p","t","s">>
K_finalError == <<"f","i","n","a","l","E","r","r","o","r">>
K_operation == <<"o","p","e","r","a","t","i","o","n">>
K_resourceId == <<"r","e","s","o","u","r","c","e","I","d">>
K_totalRequests == <<"t","o","t","a","l","R","e","q","u","e","s","t","s">>
K_rateLimitDelay == <<"r","a","t","e","L","i","m","i","t","D","e","l","a","y">>
K_userId == <<"u","s","e","r","I","d">>
K_password == <<"p","a","s","s","w","o","r","d">>
K_authToken == <<"a","u","t","h","T","o","k","e","n">>

(***************************************************************************)
(* Retry policy                                                            *)
(***************************************************************************)
DEFAULT_RETRY_OPTIONS ==
  [ maxRetries |-> 3,
    baseDelay |-> 1000,
    maxDelay |-> 30000,
    retryableErrors |-> << S_ETIMEDOUT, S_ECONNRESET, S_ENOTFOUND, S_ECONNREFUSED,
                           S_ThrottledRequest, S_TooManyRequests, S_InternalServerError,
                           S_ServiceUnavailable, S_RequestTimeout >> ]

\* 100ms between requests
rateLimitDelay == 100

\* { ...DEFAULT_RETRY_OPTIONS, ...retryOptions }: the fields given override the defaults
MergeOptions(defaults, given) ==
  [ k \in DOMAIN defaults |-> IF k \in DOMAIN given THEN given[k] ELSE defaults[k] ]

\* the retryOptions arguments the constructor is given in the model
RetryOptionsArgs ==
  { << >>,
    [ retryableErrors |-> << S_ServiceUnavailable >> ],
    [ maxRetries |-> 0 ],
    [ maxRetries |-> 2, maxDelay |-> 1500 ],
    [ maxRetries |-> 1, baseDelay |-> 50, maxDelay |-> 60, retryableErrors |-> << S_error >> ],
    [ maxRetries |-> -1 ],
    [ maxRetries |-> 1, baseDelay |-> 500, maxDelay |-> 200 ] }

(***************************************************************************)
(* Values an operation settles with                                        *)
(***************************************************************************)
\* a value thrown by the operation; isError is `instanceof Error`
Thrown(isErr, nm, msg) == [ isError |-> isErr, name |-> nm, message |-> msg ]

E_TryAgain == Thrown(TRUE, S_Error, S_TryAgain)
E_BadRequest == Thrown(TRUE, S_Error, S_BadRequest)
E_TimedOut == Thrown(TRUE, S_Error, S_ConnectTimedOut)
E_Throttled == Thrown(TRUE, S_ThrottledRequestError, S_SlowDown)
\* a plain object that is not an Error instance
V_PlainObject == Thrown(FALSE, S_ServiceUnavailable, S_TryAgain)

Ok(v) == [ ok |-> TRUE, value |-> v ]
Fail(e) == [ ok |-> FALSE, value |-> e ]
\* the operation throws before it returns a promise
FailSync(e) == [ ok |-> FALSE, value |-> e, sync |-> TRUE ]
IsSync(o) == "sync" \in DOMAIN o

\* behaviours of the wrapped operation: the outcome of its k-th invocation
\* is script[k], the last entry repeating
Scripts ==
  { << Ok(42) >>,
    << Fail(E_TryAgain) >>,
    << Fail(E_BadRequest) >>,
    << Fail(V_PlainObject) >>,
    << Fail(E_TryAgain), Ok(42) >>,
    << Fail(E_TimedOut), Fail(E_Throttled), Ok(7) >>,
    << Fail(E_TryAgain), Fail(E_TryAgain), Fail(E_TryAgain), Ok(42) >>,
    << Fail(E_Throttled), Fail(E_BadRequest) >>,
    << Fail(E_TryAgain), Fail(V_PlainObject) >>,
    << FailSync(E_TryAgain), FailSync(E_TryAgain), Ok(42) >>,
    << FailSync(V_PlainObject) >> }

\* the operations given to calls that share the manager with other calls
ShortScripts ==
  { << Ok(42) >>,
    << Fail(E_BadRequest) >>,
    << Fail(E_TryAgain), Ok(42) >> }

\* the same failures, thrown synchronously
SyncShortScripts ==
  { << FailSync(E_BadRequest) >>,
    << FailSync(E_TryAgain), Ok(42) >> }

\* the workloads: one call with any of Scripts; two calls with any of
\* ShortScripts, the first possibly throwing synchronously; the same with a
\* third call that succeeds at once; or up to NumCalls calls that all
\* succeed at once; the k-th call issued is given the k-th operation
Workloads ==
  { << s >> : s \in Scripts } \cup
  { w \in UNION { [ 1..n -> ShortScripts ] : n \in 2..3 } :
      \A k \in DOMAIN w : k > 2 => w[k] = << Ok(42) >> } \cup
  { << s, t >> : s \in SyncShortScripts, t \in ShortScripts } \cup
  UNION { [ 1..n -> { << Ok(42) >> } ] : n \in 4..NumCalls }

\* the LogContext arguments callers pass
Contexts ==
  << << >>,
     (K_userId :> "alice") @@ (K_password :> "hunter2"),
     (K_userId :> "alice") @@ (K_password :> "letmein"),
     (K_authToken :> "tok-1") @@ (K_operationId :> [ uuid |-> 0 ]) >>

\* the facade methods callers use
Facades ==
  << "getVirtualMachine", "getAllComputeResources", "getStorageAccountKeys",
     "createBlobServiceClient" >>

\* the k-th entry of a list, the list repeating
Cyclic(list, k) == list[((k - 1) % Len(list)) + 1]

\* the contexts tried with a workload: any of them for a single call, the
\* k-th one for the k-th call of several
ContextsFor(w) ==
  IF Len(w) = 1
    THEN { << x >> : x \in { Contexts[i] : i \in DOMAIN Contexts } }
    ELSE { [ k \in DOMAIN w |-> Cyclic(Contexts, k + 3) ] }

\* the facade methods tried with a workload, chosen likewise
FacadesFor(w) ==
  IF Len(w) = 1
    THEN { << f >> : f \in { Facades[i] : i \in DOMAIN Facades } }
    ELSE { [ k \in DOMAIN w |-> Cyclic(Facades, k) ] }

\* what the read of the connectivity probe settles with
ProbeOutcomes == { Ok(0), Fail(E_BadRequest), Fail(E_TryAgain), FailSync(E_TimedOut), Fail(V_PlainObject) }

OutcomeOf(script, k) == IF k <= Len(script) THEN script[k] ELSE script[Len(script)]

NoValue == [ none |-> TRUE ]

\* the value of `lastError?.message` when lastError is undefined
Undefined == [ undefined |-> TRUE ]

(***************************************************************************)
(* State                                                                   *)
(***************************************************************************)
VARIABLES
  now,              \* Date.now()
  retryOptions,     \* this.retryOptions
  requestCount,     \* this.requestCount
  lastRequestTime,  \* this.lastRequestTime
  pc,               \* position of each logical call
  script,           \* the operations the calls are given, in the order of issue
  context,          \* the LogContext argument of each call
  facade,           \* the facade method through which each call is made
  log,              \* the records each call wrote to the logger, in order
  result,           \* how the promise of the facade method settled
  startTime,        \* local `startTime` of each call
  attempt,          \* loop variable `attempt` of each call
  lastError,        \* local `lastError` of each call
  wake,             \* due time of the timer a call sleeps on
  outcome,          \* how the call's promise settled
  invoked,          \* history: how many times the call invoked its operation
  targets,          \* history: the resource names each invocation of the operation passed on
  bodyStart,        \* history: the instant of the call's first invocation of its operation
  delays,           \* history: the backoff delays the call slept
  gate,             \* history: how many times the call wrote lastRequestTime
  seenLast,         \* history: the lastRequestTime the call read at the gate
  settledBefore,    \* history: calls already settled when the call was issued
  probePc,          \* position of the testConnection call
  probeContext,     \* the LogContext argument of the testConnection call
  probeResult,      \* what the promise of testConnection settled with
  probeLog,         \* the records testConnection wrote to the logger
  probeReads,       \* history: how many times testConnection started its read
  probeRead,        \* history: what the read of testConnection settled with
  toolPc,           \* position of each handleRequest call of the server
  request,          \* the JSON-RPC request of each handleRequest call
  requestStart,     \* local `startTime` of handleRequest, callTool and the tool
  stderr,           \* what the server and the tools wrote with console.error
  response,         \* the JSON-RPC response each handleRequest call returned
  frame,            \* the locals of the tool handler each handleRequest call runs
  returned,         \* history: what that tool handler returned to callTool
  calledFor,        \* history: the handleRequest call and the resource each facade call is for
  profiles,         \* this.profiles of the configuration manager
  activeProfile,    \* this.activeProfile
  configCall,       \* history: the last call made to the configuration manager
  configCalls,      \* history: how many calls were made to it
  pending,          \* what the client has written to stdin and the server has not read yet
  buffer,           \* local `buffer` of start()
  loops,            \* the 'data' handlers suspended at `await this.handleRequest(request)`
  stdout,           \* the lines written with console.log
  received,         \* history: what the server has read from stdin
  taken,            \* history: the lines the 'data' handlers took from the buffer
  answered,         \* history: the line of `taken` each line of stdout answers
  joined            \* history: the lines of `taken` that began in an earlier chunk

vars == << now, retryOptions, requestCount, lastRequestTime, pc, script, context, facade,
           log, result, startTime, attempt,
           lastError, wake, outcome, invoked, targets, bodyStart, delays, gate, seenLast, settledBefore,
           probePc, probeContext, probeResult, probeLog, probeReads, probeRead,
           toolPc, request, requestStart, stderr, response, frame, returned, calledFor,
           profiles, activeProfile, configCall, configCalls,
           pending, buffer, loops, stdout, received, taken, answered, joined >>

\* the variables of the stdio loop
stdioVars == << pending, buffer, loops, stdout, received, taken, answered, joined >>

\* the variables of the configuration manager
configVars == << profiles, activeProfile, configCall, configCalls >>

\* the variables of the MCP server and of the tool it runs
toolVars == << toolPc, request, requestStart, stderr, response, frame, returned,
               calledFor >>

\* the variables of the connectivity probe
probeVars == << probePc, probeContext, probeResult, probeLog, probeReads, probeRead >>

\* the variables of the manager and of the logical calls
callVars == << retryOptions, requestCount, lastRequestTime, pc, script, context, facade,
               log, result, startTime, attempt, lastError, wake, outcome, invoked, targets,
               bodyStart, delays, gate, seenLast, settledBefore >>

\* the constructor arguments tried with a workload: all of them up to two
\* calls, the defaults beyond
RetryOptionsArgsFor(w) == IF Len(w) <= 2 THEN RetryOptionsArgs ELSE { << >> }

(***************************************************************************)
(* Pure functions of the executor                                          *)
(***************************************************************************)
Min(a, b) == IF a <= b THEN a ELSE b

RECURSIVE pow2(_)
\* Math.pow(2, n) for n >= 0
pow2(n) == IF n <= 0 THEN 1 ELSE 2 * pow2(n - 1)

\* variant: the signature is compared as written, not lower-cased
isRetryableError_RawSignature(opts, error) ==
  \E i \in 1..Len(opts.retryableErrors) :
    \/ includes(toLowerCase(error.message), opts.retryableErrors[i])
    \/ includes(toLowerCase(error.name), opts.retryableErrors[i])

\* isRetryableError(error)
isRetryableError(opts, error) ==
  \E i \in 1..Len(opts.retryableErrors) :
    \/ includes(toLowerCase(error.message), toLowerCase(opts.retryableErrors[i]))
    \/ includes(toLowerCase(error.name), toLowerCase(opts.retryableErrors[i]))

\* variant: the exponent is the attempt number itself
backoffDelay_ExponentAttempt(opts, a) == Min(opts.baseDelay * pow2(a), opts.maxDelay)

\* Math.min(baseDelay * Math.pow(2, attempt - 1), maxDelay)
backoffDelay(opts, a) == Min(opts.baseDelay * pow2(a - 1), opts.maxDelay)

\* variant: the last retry is given up one attempt early
mustBreak_OffByOne(opts, a, error) == a >= opts.maxRetries \/ ~isRetryableError(opts, error)

\* variant: a retryable error is retried however many attempts were made
mustBreak_NoBound(opts, a, error) == ~isRetryableError(opts, error)

\* variant: every error is retried
mustBreak_RetryAll(opts, a, error) == a > opts.maxRetries

\* attempt > maxRetries || !isRetryableError(lastError)
mustBreak(opts, a, error) == a > opts.maxRetries \/ ~isRetryableError(opts, error)

\* the object thrown by the n-th invocation of call c's operation
thrownObject(c, n, v) ==
  [ isError |-> v.isError, name |-> v.name, message |-> v.message,
    ref |-> [ by |-> "operation", call |-> c, n |-> n ] ]

\* new Error(message), created by executeWithRetry of call c
newError(c, n, msg) ==
  [ isError |-> TRUE, name |-> S_Error, message |-> msg,
    ref |-> [ by |-> "executeWithRetry", call |-> c, n |-> n ] ]

\* variant: every caught value is wrapped in a new Error with its message
caughtError_Wrap(c, n, error) == newError(c, n, error.message)

\* error instanceof Error ? error : new Error('Unknown error')
caughtError(c, n, error) ==
  IF error.isError THEN error ELSE newError(c, n, S_UnknownError)

\* variant: a call arriving exactly rateLimitDelay after the last one waits
mustWait_OrEqual(t, last) == t - last <= rateLimitDelay

\* variant: the comparison is turned around
mustWait_Inverted(t, last) == t - last > rateLimitDelay

\* timeSinceLastRequest < this.rateLimitDelay
mustWait(t, last) == t - last < rateLimitDelay

\* variant: the call sleeps the time elapsed, not the time remaining
waitFor_Elapsed(t, last) == t - last

\* this.rateLimitDelay - timeSinceLastRequest
waitFor(t, last) == rateLimitDelay - (t - last)

\* variant: the context given by the caller overrides the fields
Spread_ContextWins(a, b) ==
  [ k \in DOMAIN a \cup DOMAIN b |-> IF k \in DOMAIN a THEN a[k] ELSE b[k] ]

\* { ...a, ...b }: the fields of b override those of a
Spread(a, b) ==
  [ k \in DOMAIN a \cup DOMAIN b |-> IF k \in DOMAIN b THEN b[k] ELSE a[k] ]

\* logger.debug / info / warn / error: console.error(`LEVEL: ${msg}`, ctx)
loggerWrite(level, msg, ctx) == [ level |-> level, message |-> msg, ctx |-> ctx ]

\* uuidv4(), called once by call c
uuidv4(c) == [ uuid |-> c ]

\* the name a facade method puts into the context
operationName(f) == IF f = "createBlobServiceClient" THEN "getStorageAccountKeys" ELSE f

\* { ...context, operation: '<name>', resourceId: <name argument> }
facadeContext(f, ctx) ==
  IF f = "getAllComputeResources"
    THEN Spread(ctx, K_operation :> operationName(f))
    ELSE Spread(ctx, (K_operation :> operationName(f)) @@ (K_resourceId :> "res-1"))

\* the context executeWithRetry of call c is given
contextOf(c) == facadeContext(facade[c], context[c])

\* logger.debug('Executing Azure operation', ...)
executingRecord(c, a) ==
  loggerWrite("DEBUG", "Executing Azure operation",
    Spread(contextOf(c), (K_operationId :> uuidv4(c)) @@ (K_attempt :> a)
                          @@ (K_maxRetries :> retryOptions.maxRetries)))

\* logger.info('Azure operation completed successfully', ...)
completedRecord(c, a) ==
  loggerWrite("INFO", "Azure operation completed successfully",
    Spread(contextOf(c), (K_operationId :> uuidv4(c)) @@ (K_duration :> now - startTime[c])
                          @@ (K_attempt :> a)))

\* logger.warn('Azure operation failed', ...)
failedRecord(c, a, error) ==
  loggerWrite("WARN", "Azure operation failed",
    Spread(contextOf(c), (K_operationId :> uuidv4(c)) @@ (K_attempt :> a)
                          @@ (K_error :> error.message)
                          @@ (K_duration :> now - startTime[c])))

\* logger.debug('Retrying Azure operation after delay', ...)
retryingRecord(c, a) ==
  loggerWrite("DEBUG", "Retrying Azure operation after delay",
    Spread(contextOf(c), (K_operationId :> uuidv4(c))
                          @@ (K_delay :> backoffDelay(retryOptions, a))
                          @@ (K_nextAttempt :> a + 1)))

\* logger.error('Azure operation failed after all retries', ...)
finalRecord(c, error) ==
  loggerWrite("ERROR", "Azure operation failed after all retries",
    Spread(contextOf(c), (K_operationId :> uuidv4(c))
                          @@ (K_totalDuration :> now - startTime[c])
                          @@ (K_attempts :> retryOptions.maxRetries + 1)
                          @@ (K_finalError :> IF error = NoValue THEN Undefined
                                                                  ELSE error.message)))

\* the record written at every hundredth request
rateLimitStatus(count) ==
  IF count % 100 = 0
    THEN << loggerWrite("DEBUG", "Request rate limiting status",
              (K_totalRequests :> count) @@ (K_rateLimitDelay :> rateLimitDelay)) >>
    ELSE << >>

\* variant: a facade method wraps the failure of the executor
facadeReturn_Translate(f, out) ==
  IF out.status = "rejected"
    THEN [ status |-> "rejected",
           value |-> [ isError |-> TRUE, name |-> S_Error, message |-> out.value.message,
                       ref |-> [ by |-> f, call |-> out.value.ref.call, n |-> out.value.ref.n ] ] ]
    ELSE out

\* what a facade method makes of the outcome of its executeWithRetry call:
\* createBlobServiceClient builds a client from the key, the others return it
facadeReturn(f, out) ==
  IF f = "createBlobServiceClient" /\ out.status = "fulfilled"
    THEN [ status |-> "fulfilled", value |-> [ blobServiceClient |-> out.value ] ]
    ELSE out

(***************************************************************************)
(* Configurations and their validation (src/dist/config/index.js)          *)
(***************************************************************************)
G_Subscription == <<"7","d","8","e","9","f","1","0","-","1","1","a","2","-","4","b","3","c","-","8","d","4","e","-","5","f","6","a","7","b","8","c","9","d","0","e">>
G_Tenant == <<"f","1","e","2","d","3","c","4","-","b","5","a","6","-","4","9","7","8","-","9","e","8","d","-","7","c","6","b","5","a","4","f","3","e","2","d">>
G_Client == <<"0","b","b","1","4","4","b","2","-","d","b","6","4","-","4","5","6","b","-","b","d","8","a","-","6","8","1","7","f","8","6","d","4","7","a","2">>
G_Other == <<"1","2","3","4","5","6","7","8","-","1","2","3","4","-","4","2","3","4","-","9","2","3","4","-","1","2","3","4","5","6","7","8","9","0","1","2">>
\* not a UUID of version 4: the version digit is 1
G_Version1 == <<"1","2","3","4","5","6","7","8","-","1","2","3","4","-","1","2","3","4","-","1","2","3","4","-","1","2","3","4","5","6","7","8","9","0","1","2">>
G_NotAGuid == <<"n","o","t","-","a","-","g","u","i","d">>

HexDigits ==
  { "0","1","2","3","4","5","6","7","8","9","a","b","c","d","e","f","A","B","C","D","E","F" }

\* Joi.string().guid({ version: 'uuidv4' }) on a hyphenated UUID
isGuid(s) ==
  /\ Len(s) = 36
  /\ \A k \in 1..36 : IF k \in { 9, 14, 19, 24 } THEN s[k] = "-" ELSE s[k] \in HexDigits
  /\ s[15] = "4"
  /\ s[20] \in { "8", "9", "a", "b", "A", "B" }

ValidRegions == { "eastus", "westus", "westus2", "eastus2", "centralus", "northeurope", "westeurope" }

\* the keys of configSchema
SchemaKeys ==
  { "subscriptionId", "tenantId", "clientId", "clientSecret", "defaultRegion",
    "resourceGroupPrefix", "environment", "authorityHost", "defaultVmSize",
    "defaultAppServicePlan", "defaultStorageSku" }

\* the defaults of configSchema
SchemaDefaults ==
  [ defaultRegion |-> "eastus", resourceGroupPrefix |-> "mcp-rg", environment |-> "AzureCloud",
    authorityHost |-> "https://login.microsoftonline.com", defaultVmSize |-> "Standard_B1s",
    defaultAppServicePlan |-> "F1", defaultStorageSku |-> "Standard_LRS" ]

\* the configuration objects the manager is given
C_environment ==
  [ subscriptionId |-> G_Subscription, tenantId |-> G_Tenant, clientId |-> G_Client,
    clientSecret |-> "env-client-secret", defaultRegion |-> "eastus",
    resourceGroupPrefix |-> "mcp-rg", environment |-> "AzureCloud",
    authorityHost |-> "https://login.microsoftonline.com", defaultVmSize |-> "Standard_B1s",
    defaultAppServicePlan |-> "F1", defaultStorageSku |-> "Standard_LRS" ]
C_temp ==
  [ subscriptionId |-> G_Other, tenantId |-> G_Tenant, clientId |-> G_Client,
    clientSecret |-> "temp-client-secret" ]
C_west ==
  [ subscriptionId |-> G_Subscription, tenantId |-> G_Tenant, clientId |-> G_Client,
    clientSecret |-> "test-secret", defaultRegion |-> "westus", note |-> "branch-test" ]
C_notAGuid ==
  [ subscriptionId |-> G_NotAGuid, tenantId |-> G_Tenant, clientId |-> G_Client,
    clientSecret |-> "temp-client-secret" ]
C_version1 ==
  [ subscriptionId |-> G_Subscription, tenantId |-> G_Version1, clientId |-> G_Client,
    clientSecret |-> "temp-client-secret" ]
C_noSecret ==
  [ subscriptionId |-> G_Subscription, tenantId |-> G_Tenant, clientId |-> G_Client ]
C_emptySecret ==
  [ subscriptionId |-> G_Subscription, tenantId |-> G_Tenant, clientId |-> G_Client,
    clientSecret |-> "" ]
C_noRegion ==
  [ subscriptionId |-> G_Subscription, tenantId |-> G_Tenant, clientId |-> G_Client,
    clientSecret |-> "test-secret", defaultRegion |-> "atlantis" ]

Configurations ==
  { C_temp, C_west, C_notAGuid, C_version1, C_noSecret, C_emptySecret, C_noRegion }

\* the profile names the manager is called with
ProfileNames == { "default", "dev", "prod" }

\* configSchema.validate(config, { stripUnknown: true, ... }): error, or the
\* value with the unknown keys stripped and the defaults filled in
validateConfiguration(config) ==
  LET guids == \A k \in { "subscriptionId", "tenantId", "clientId" } :
                 k \in DOMAIN config /\ isGuid(config[k])
      secret == "clientSecret" \in DOMAIN config /\ config.clientSecret # ""
      region == "defaultRegion" \in DOMAIN config => config.defaultRegion \in ValidRegions
      keys == (DOMAIN config \cap SchemaKeys) \cup DOMAIN SchemaDefaults
  IN IF guids /\ secret /\ region
       THEN [ error |-> FALSE,
              value |-> [ k \in keys |-> IF k \in DOMAIN config THEN config[k] ELSE SchemaDefaults[k] ] ]
       ELSE [ error |-> TRUE, message |-> "Configuration validation failed" ]

\* start() has not been called: nothing is read from stdin
StdioIdle ==
  /\ pending = << >>
  /\ buffer = << >>
  /\ loops = << >>
  /\ stdout = << >>
  /\ received = << >>
  /\ taken = << >>
  /\ answered = << >>
  /\ joined = { }

\* the configuration manager as the singleton is left when only the
\* environment configures it and nothing has called it
ConfigLoaded ==
  /\ profiles = "default" :> validateConfiguration(C_environment).value
  /\ activeProfile = "default"
  /\ configCall = NoValue
  /\ configCalls = 0

(***************************************************************************)
(* Initial state: the manager as its constructor leaves it                 *)
(***************************************************************************)
\* the manager and its calls, as the constructor leaves them
ManagerInit ==
  /\ now = Epoch
  /\ requestCount = 0
  /\ lastRequestTime = 0
  /\ pc = [ c \in Calls |-> "idle" ]
  /\ log = [ c \in Calls |-> << >> ]
  /\ result = [ c \in Calls |-> NoValue ]
  /\ startTime = [ c \in Calls |-> 0 ]
  /\ attempt = [ c \in Calls |-> 0 ]
  /\ lastError = [ c \in Calls |-> NoValue ]
  /\ wake = [ c \in Calls |-> 0 ]
  /\ outcome = [ c \in Calls |-> NoValue ]
  /\ invoked = [ c \in Calls |-> 0 ]
  /\ targets = [ c \in Calls |-> << >> ]
  /\ bodyStart = [ c \in Calls |-> 0 ]
  /\ delays = [ c \in Calls |-> << >> ]
  /\ gate = [ c \in Calls |-> 0 ]
  /\ seenLast = [ c \in Calls |-> 0 ]
  /\ settledBefore = [ c \in Calls |-> {} ]
  /\ probePc = "idle"
  /\ probeContext = << >>
  /\ probeResult = NoValue
  /\ probeLog = << >>
  /\ probeReads = 0
  /\ probeRead = NoValue

\* a manager built with any of the constructor arguments and used directly
\* by its callers, no server running
Init ==
  /\ ManagerInit
  /\ script \in Workloads
  /\ retryOptions \in { MergeOptions(DEFAULT_RETRY_OPTIONS, g) : g \in RetryOptionsArgsFor(script) }
  /\ context \in ContextsFor(script)
  /\ facade \in FacadesFor(script)
  /\ toolPc = << "off", "off" >>
  /\ request = << NoValue, NoValue >>
  /\ requestStart = << 0, 0 >>
  /\ stderr = << >>
  /\ response = << NoValue, NoValue >>
  /\ frame = << NoValue, NoValue >>
  /\ returned = << NoValue, NoValue >>
  /\ calledFor = [ c \in Calls |-> NoValue ]
  /\ ConfigLoaded
  /\ StdioIdle

(***************************************************************************)
(* Steps of a logical call                                                 *)
(***************************************************************************)
\* no continuation is waiting in the microtask queue
Quiescent == \A c \in Calls : pc[c] # "admitted"

\* variant: the request is counted only in the branch that slept
passGate_CountInBranch(c) ==
  /\ lastRequestTime' = now
  /\ requestCount' = IF pc[c] = "rateLimitSleep" THEN requestCount + 1 ELSE requestCount
  /\ gate' = [ gate EXCEPT ![c] = @ + 1 ]

\* this.lastRequestTime = Date.now(); this.requestCount++
passGate(c) ==
  /\ lastRequestTime' = now
  /\ requestCount' = requestCount + 1
  /\ gate' = [ gate EXCEPT ![c] = @ + 1 ]

\* the monitoring record of applyRateLimit
gateLog(c) == log' = [ log EXCEPT ![c] = @ \o rateLimitStatus(requestCount + 1) ]

\* the promise of the facade method settles with the promise of the executor
facadeSettles(c) ==
  result' = IF pc'[c] = "settled"
              THEN [ result EXCEPT ![c] = facadeReturn(facade[c], outcome'[c]) ]
              ELSE result

\* after the loop, with L the records already written in this step:
\* logger.error(...); throw lastError || new Error('Operation failed after all retries')
afterLoop(c, error, L) ==
  /\ pc' = [ pc EXCEPT ![c] = "settled" ]
  /\ log' = [ log EXCEPT ![c] = @ \o L \o << finalRecord(c, error) >> ]
  /\ outcome' = [ outcome EXCEPT ![c] =
        [ status |-> "rejected",
          value |-> IF error = NoValue
                      THEN newError(c, invoked[c], S_AllRetriesFailed)
                      ELSE error ] ]

\* the decimal digits of a natural number, as String(n) gives them
Digits == << "0", "1", "2", "3", "4", "5", "6", "7", "8", "9" >>

RECURSIVE decimal(_)
decimal(n) == IF n < 10 THEN << Digits[n + 1] >> ELSE decimal(n \div 10) \o << Digits[(n % 10) + 1] >>

\* variant: the operation names the resource when it is invoked
target_NamedAtInvocation(c, t) ==
  IF calledFor[c] = NoValue
    THEN NoValue
    ELSE [ k \in DOMAIN calledFor[c].target |-> calledFor[c].target[k] \o << "-" >> \o decimal(t) ]

\* the resource names the operation of call c passes to the Azure SDK when
\* it is invoked at the instant t: the parameters of the facade method,
\* which the operation closes over (a caller that uses the manager
\* directly passes an operation of its own)
target(c, t) == IF calledFor[c] = NoValue THEN NoValue ELSE calledFor[c].target

\* the catch block of iteration a, entered with the value v thrown by the
\* n-th invocation of the operation, L being the records already written
\* in this step
catchBlock(c, a, n, v, L) ==
  LET error == caughtError(c, n, thrownObject(c, n, v))
      L1 == L \o << failedRecord(c, a, error) >>
  IN /\ lastError' = [ lastError EXCEPT ![c] = error ]
     /\ IF mustBreak(retryOptions, a, error)
          THEN /\ afterLoop(c, error, L1)
               /\ UNCHANGED << wake, delays >>
          ELSE /\ pc' = [ pc EXCEPT ![c] = "backoffSleep" ]
               /\ log' = [ log EXCEPT ![c] = @ \o L1 \o << retryingRecord(c, a) >> ]
               /\ delays' = [ delays EXCEPT ![c] = Append(@, backoffDelay(retryOptions, a)) ]
               /\ wake' = [ wake EXCEPT ![c] = now + backoffDelay(retryOptions, a) ]
               /\ UNCHANGED outcome

\* variant: operation() is called outside the try block, so that a
\* synchronous throw rejects the call at once
loopHead_SyncEscapes(c, a, L) ==
  /\ attempt' = [ attempt EXCEPT ![c] = a ]
  /\ IF a <= retryOptions.maxRetries + 1
       THEN /\ invoked' = [ invoked EXCEPT ![c] = @ + 1 ]
            /\ targets' = [ targets EXCEPT ![c] = Append(@, target(c, now)) ]
            /\ bodyStart' = [ bodyStart EXCEPT ![c] = IF invoked[c] = 0 THEN now ELSE @ ]
            /\ log' = [ log EXCEPT ![c] = @ \o L \o << executingRecord(c, a) >> ]
            /\ LET o == OutcomeOf(script[c], invoked[c] + 1)
               IN IF ~o.ok /\ IsSync(o)
                    THEN /\ pc' = [ pc EXCEPT ![c] = "settled" ]
                         /\ outcome' = [ outcome EXCEPT ![c] =
                               [ status |-> "rejected",
                                 value |-> thrownObject(c, invoked[c] + 1, o.value) ] ]
                         /\ UNCHANGED << lastError, wake, delays >>
                    ELSE /\ pc' = [ pc EXCEPT ![c] = "operation" ]
                         /\ UNCHANGED << outcome, lastError, wake, delays >>
       ELSE /\ afterLoop(c, lastError[c], L)
            /\ UNCHANGED << invoked, targets, bodyStart, lastError, wake, delays >>

\* variant: the loop variable is a field of the manager, shared by the calls
loopHead_SharedAttempt(c, a, L) ==
  /\ attempt' = [ d \in Calls |-> a ]
  /\ IF a <= retryOptions.maxRetries + 1
       THEN /\ invoked' = [ invoked EXCEPT ![c] = @ + 1 ]
            /\ targets' = [ targets EXCEPT ![c] = Append(@, target(c, now)) ]
            /\ bodyStart' = [ bodyStart EXCEPT ![c] = IF invoked[c] = 0 THEN now ELSE @ ]
            /\ LET o == OutcomeOf(script[c], invoked[c] + 1)
                   L1 == L \o << executingRecord(c, a) >>
               IN IF ~o.ok /\ IsSync(o)
                    THEN catchBlock(c, a, invoked[c] + 1, o.value, L1)
                    ELSE /\ pc' = [ pc EXCEPT ![c] = "operation" ]
                         /\ log' = [ log EXCEPT ![c] = @ \o L1 ]
                         /\ UNCHANGED << outcome, lastError, wake, delays >>
       ELSE /\ afterLoop(c, lastError[c], L)
            /\ UNCHANGED << invoked, targets, bodyStart, lastError, wake, delays >>

\* the head of the for loop with loop variable a, L being the records
\* already written in this step: test, logger.debug(...), then operation();
\* a synchronous throw of operation() enters the catch block at once
loopHead(c, a, L) ==
  /\ attempt' = [ attempt EXCEPT ![c] = a ]
  /\ IF a <= retryOptions.maxRetries + 1
       THEN /\ invoked' = [ invoked EXCEPT ![c] = @ + 1 ]
            /\ targets' = [ targets EXCEPT ![c] = Append(@, target(c, now)) ]
            /\ bodyStart' = [ bodyStart EXCEPT ![c] = IF invoked[c] = 0 THEN now ELSE @ ]
            /\ LET o == OutcomeOf(script[c], invoked[c] + 1)
                   L1 == L \o << executingRecord(c, a) >>
               IN IF ~o.ok /\ IsSync(o)
                    THEN catchBlock(c, a, invoked[c] + 1, o.value, L1)
                    ELSE /\ pc' = [ pc EXCEPT ![c] = "operation" ]
                         /\ log' = [ log EXCEPT ![c] = @ \o L1 ]
                         /\ UNCHANGED << outcome, lastError, wake, delays >>
       ELSE /\ afterLoop(c, lastError[c], L)
            /\ UNCHANGED << invoked, targets, bodyStart, lastError, wake, delays >>

\* executeWithRetry is called: runs up to the first suspension, which is
\* in applyRateLimit (the sleep, or the return when no sleep is needed).
\* Calls are issued in the order of their numbers.  The continuation of an
\* admitted call touches only that call's locals, so it is taken before
\* the next call is issued.
executeWithRetry(c) ==
  /\ c \in DOMAIN script
  /\ pc[c] = "idle"
  /\ Quiescent
  /\ \A d \in Calls : d < c => pc[d] # "idle"
  /\ settledBefore' = [ settledBefore EXCEPT ![c] = { d \in Calls : pc[d] = "settled" } ]
  /\ seenLast' = [ seenLast EXCEPT ![c] = lastRequestTime ]
  /\ IF mustWait(now, lastRequestTime)
       THEN /\ pc' = [ pc EXCEPT ![c] = "rateLimitSleep" ]
            /\ wake' = [ wake EXCEPT ![c] = now + waitFor(now, lastRequestTime) ]
            /\ UNCHANGED << lastRequestTime, requestCount, gate, log >>
       ELSE /\ pc' = [ pc EXCEPT ![c] = "admitted" ]
            /\ passGate(c)
            /\ gateLog(c)
            /\ UNCHANGED wake
  /\ startTime' = [ startTime EXCEPT ![c] = now ]
  /\ UNCHANGED << now, retryOptions, script, result, attempt, lastError,
                  outcome, invoked, targets, bodyStart, delays >>
  /\ UNCHANGED probeVars
  /\ UNCHANGED configVars
  /\ UNCHANGED stdioVars

\* a caller that uses the manager directly calls a facade method
callerInvokes(c) ==
  /\ toolPc[1] = "off"
  /\ executeWithRetry(c)
  /\ UNCHANGED << context, facade >>
  /\ UNCHANGED toolVars

\* applyRateLimit resumes when its timer fires
applyRateLimit(c) ==
  /\ pc[c] = "rateLimitSleep"
  /\ Quiescent
  /\ now >= wake[c]
  /\ pc' = [ pc EXCEPT ![c] = "admitted" ]
  /\ passGate(c)
  /\ gateLog(c)
  /\ UNCHANGED << now, retryOptions, script, context, facade, result, startTime, attempt,
                  lastError, wake, outcome, invoked, targets, bodyStart, delays, seenLast, settledBefore >>
  /\ UNCHANGED probeVars
  /\ UNCHANGED configVars
  /\ UNCHANGED stdioVars
  /\ UNCHANGED toolVars

\* executeWithRetry continues after `await this.applyRateLimit()`
enterLoop(c) ==
  /\ pc[c] = "admitted"
  /\ loopHead(c, 1, << >>)
  /\ facadeSettles(c)
  /\ UNCHANGED << now, retryOptions, requestCount, lastRequestTime, script, context, facade,
                  startTime, gate, seenLast, settledBefore >>
  /\ UNCHANGED probeVars
  /\ UNCHANGED configVars
  /\ UNCHANGED stdioVars
  /\ UNCHANGED toolVars

\* the awaited operation() settles: the return, or the catch block
operationSettles(c) ==
  /\ pc[c] = "operation"
  /\ Quiescent
  /\ LET n == invoked[c]
         o == OutcomeOf(script[c], n)
     IN IF o.ok
          THEN /\ pc' = [ pc EXCEPT ![c] = "settled" ]
               /\ outcome' = [ outcome EXCEPT ![c] = [ status |-> "fulfilled", value |-> o.value ] ]
               /\ log' = [ log EXCEPT ![c] = @ \o << completedRecord(c, attempt[c]) >> ]
               /\ UNCHANGED << lastError, wake, delays >>
          ELSE catchBlock(c, attempt[c], n, o.value, << >>)
  /\ facadeSettles(c)
  /\ UNCHANGED << now, retryOptions, requestCount, lastRequestTime, script, context, facade,
                  startTime, attempt,
                  invoked, targets, bodyStart, gate, seenLast, settledBefore >>
  /\ UNCHANGED probeVars
  /\ UNCHANGED configVars
  /\ UNCHANGED stdioVars
  /\ UNCHANGED toolVars

\* variant: the rate-limit gate stands inside the loop
sleepResume_Regate(c) ==
  /\ pc[c] = "backoffSleep"
  /\ Quiescent
  /\ now >= wake[c]
  /\ loopHead(c, attempt[c] + 1, << >>)
  /\ facadeSettles(c)
  /\ passGate(c)
  /\ UNCHANGED << now, retryOptions, script, context, facade, startTime, seenLast, settledBefore >>
  /\ UNCHANGED probeVars
  /\ UNCHANGED configVars
  /\ UNCHANGED stdioVars
  /\ UNCHANGED toolVars

\* `await this.sleep(delay)` resumes: attempt++ and the next iteration
sleepResume(c) ==
  /\ pc[c] = "backoffSleep"
  /\ Quiescent
  /\ now >= wake[c]
  /\ loopHead(c, attempt[c] + 1, << >>)
  /\ facadeSettles(c)
  /\ UNCHANGED << now, retryOptions, requestCount, lastRequestTime, script, context, facade,
                  startTime, gate, seenLast, settledBefore >>
  /\ UNCHANGED probeVars
  /\ UNCHANGED configVars
  /\ UNCHANGED stdioVars
  /\ UNCHANGED toolVars

(***************************************************************************)
(* The clock                                                               *)
(***************************************************************************)
Sleeping == { c \in Calls : pc[c] \in { "rateLimitSleep", "backoffSleep" } /\ wake[c] > now }

NextDue == CHOOSE t \in { wake[c] : c \in Sleeping } : \A c \in Sleeping : t <= wake[c]

\* time passes while nothing runs
Tick ==
  /\ Quiescent
  /\ now + TickStep <= Epoch + MaxDrift
  /\ now' = now + TickStep
  /\ UNCHANGED << retryOptions, requestCount, lastRequestTime, pc, script, context, facade,
                  log, result, startTime, attempt,
                  lastError, wake, outcome, invoked, targets, bodyStart, delays, gate, seenLast, settledBefore >>
  /\ UNCHANGED probeVars
  /\ UNCHANGED configVars
  /\ UNCHANGED stdioVars
  /\ UNCHANGED toolVars

\* time passes until the next timer is due
TimerDue ==
  /\ Quiescent
  /\ Sleeping # {}
  /\ now' = NextDue
  /\ UNCHANGED << retryOptions, requestCount, lastRequestTime, pc, script, context, facade,
                  log, result, startTime, attempt,
                  lastError, wake, outcome, invoked, targets, bodyStart, delays, gate, seenLast, settledBefore >>
  /\ UNCHANGED probeVars
  /\ UNCHANGED configVars
  /\ UNCHANGED stdioVars
  /\ UNCHANGED toolVars

(***************************************************************************)
(* The connectivity probe                                                  *)
(***************************************************************************)
\* the catch block of testConnection called with context x, entered with the
\* value v the read threw
probeCatch(x, v) ==
  /\ probePc' = "done"
  /\ probeLog' = Append(probeLog,
        loggerWrite("ERROR", "Azure connection test failed",
                    Spread(x, K_error :> v)))
  /\ probeResult' = [ success |-> FALSE,
                      error |-> IF v.isError THEN v.message ELSE S_UnknownConnectionError ]

\* the managers the probe is tried on: those built with the default policy
\* that serve one call, made through the first facade with an empty context
ProbeTried ==
  /\ Len(script) = 1
  /\ retryOptions = DEFAULT_RETRY_OPTIONS
  /\ context[1] = Contexts[1]
  /\ facade[1] = Facades[1]

\* variant: the probe is counted and stamped like a request that passed
\* the gate
testConnection_Gated(x, o) ==
  /\ probePc = "idle"
  /\ ProbeTried
  /\ Quiescent
  /\ probeContext' = x
  /\ probeReads' = probeReads + 1
  /\ probeRead' = o
  /\ IF ~o.ok /\ IsSync(o)
       THEN probeCatch(x, o.value)
       ELSE /\ probePc' = "reading"
            /\ UNCHANGED << probeResult, probeLog >>
  /\ lastRequestTime' = now
  /\ requestCount' = requestCount + 1
  /\ UNCHANGED << now, retryOptions, pc, script, context, facade,
                  log, result, startTime, attempt, lastError, wake, outcome, invoked,
                  targets, bodyStart, delays, gate, seenLast, settledBefore >>
  /\ UNCHANGED toolVars
  /\ UNCHANGED configVars
  /\ UNCHANGED stdioVars

\* testConnection is called with context x and its read is to settle with o:
\* resourceGroups.list(), then resourceGroups.next() up to the await
testConnection(x, o) ==
  /\ probePc = "idle"
  /\ ProbeTried
  /\ Quiescent
  /\ probeContext' = x
  /\ probeReads' = probeReads + 1
  /\ probeRead' = o
  /\ IF ~o.ok /\ IsSync(o)
       THEN probeCatch(x, o.value)
       ELSE /\ probePc' = "reading"
            /\ UNCHANGED << probeResult, probeLog >>
  /\ UNCHANGED << now, callVars >>
  /\ UNCHANGED toolVars
  /\ UNCHANGED configVars
  /\ UNCHANGED stdioVars

\* variant: a failed read is tried once more
probeSettles_Retry ==
  /\ probePc = "reading"
  /\ Quiescent
  /\ IF probeRead.ok
       THEN /\ probePc' = "done"
            /\ probeResult' = [ success |-> TRUE ]
            /\ UNCHANGED << probeLog, probeReads >>
       ELSE IF probeReads < 2
              THEN /\ probeReads' = probeReads + 1
                   /\ UNCHANGED << probePc, probeResult, probeLog >>
              ELSE /\ probeCatch(probeContext, probeRead.value)
                   /\ UNCHANGED probeReads
  /\ UNCHANGED << now, callVars, probeContext, probeRead >>
  /\ UNCHANGED toolVars
  /\ UNCHANGED configVars
  /\ UNCHANGED stdioVars

\* the awaited read settles: return { success: true }, or the catch block
probeSettles ==
  /\ probePc = "reading"
  /\ Quiescent
  /\ IF probeRead.ok
       THEN /\ probePc' = "done"
            /\ probeResult' = [ success |-> TRUE ]
            /\ UNCHANGED << probeLog, probeReads >>
       ELSE /\ probeCatch(probeContext, probeRead.value)
            /\ UNCHANGED probeReads
  /\ UNCHANGED << now, callVars, probeContext, probeRead >>
  /\ UNCHANGED toolVars
  /\ UNCHANGED configVars
  /\ UNCHANGED stdioVars

Next ==
  \/ \E c \in Calls : callerInvokes(c)
  \/ \E c \in Calls : applyRateLimit(c)
  \/ \E c \in Calls : enterLoop(c)
  \/ \E c \in Calls : operationSettles(c)
  \/ \E c \in Calls : sleepResume(c)
  \/ \E i \in DOMAIN Contexts, o \in ProbeOutcomes : testConnection(Contexts[i], o)
  \/ probeSettles
  \/ Tick
  \/ TimerDue

Spec == Init /\ [][Next]_vars

\* what the event loop guarantees: a continuation that can run is run and
\* a timer that is set fires
Resume == \E c \in Calls : applyRateLimit(c) \/ enterLoop(c) \/ sleepResume(c)

\* an awaited operation can resume: this is ENABLED of operationSettles
Awaiting == \E c \in Calls : pc[c] = "operation" /\ Quiescent

\* the wrapped operation is assumed to settle its promise: weak fairness of
\* operationSettles, with its enabling condition written out
OperationsSettle ==
  []<>(~Awaiting) \/ []<><< \E c \in Calls : operationSettles(c) >>_vars

Fairness == WF_vars(Resume) /\ WF_vars(TimerDue) /\ OperationsSettle

\* the manager used directly by callers that make one or two calls, a
\* single call through the first facade with an empty context, no probe
\* made
LiveInit ==
  /\ Init
  /\ Len(script) <= 2
  /\ \A c \in DOMAIN script : ~IsSync(script[c][1])
  /\ Len(script) = 1 => (context[1] = Contexts[1] /\ facade[1] = Facades[1])

LiveNext ==
  \/ \E c \in Calls : callerInvokes(c)
  \/ \E c \in Calls : applyRateLimit(c)
  \/ \E c \in Calls : enterLoop(c)
  \/ \E c \in Calls : operationSettles(c)
  \/ \E c \in Calls : sleepResume(c)
  \/ Tick
  \/ TimerDue

LiveSpec == LiveInit /\ [][LiveNext]_vars /\ Fairness

(***************************************************************************)
(* The MCP server: handleRequest, callTool and the four tools of           *)
(* AzureOperations, which reach Azure through the facade methods of a      *)
(* manager built with the default policy.  The server handles two          *)
(* requests concurrently: each handleRequest call runs up to its first     *)
(* await when it is made and continues when the promise it awaits has      *)
(* settled.  A request is a JSON-RPC request object.  A message is a       *)
(* sequence of the strings it is put together from.                        *)
(***************************************************************************)
S_web == <<"w","e","b">>
S_LongPrefix == <<"a","b","c","d","e","f","g","h","i","j","k","l","m","n","o","p","q","r","s","t","u">>

\* the handleRequest calls
Handlings == { 1, 2 }

\* JSON values of the id member
number(n) == [ number |-> n ]
string(s) == [ string |-> s ]
null == [ null |-> TRUE ]

RegisteredTools ==
  { "azure.getExistingServers", "azure.deployMinimalInstance", "azure.deployBackend",
    "azure.deployFrontend" }

\* inputSchema.required of each tool
RequiredParams ==
  [ t \in RegisteredTools |->
      CASE t = "azure.getExistingServers" -> << >>
        [] t = "azure.deployMinimalInstance" -> << "instanceType", "region", "namePrefix" >>
        [] t = "azure.deployBackend" -> << "instanceId", "deploymentPackage", "runtime" >>
        [] t = "azure.deployFrontend" -> << "instanceId", "buildDirectory" >> ]

\* the arguments azure.deployMinimalInstance is called with
ToolArguments ==
  { [ instanceType |-> "vm", region |-> "eastus", namePrefix |-> S_web, adminPassword |-> "Passw0rd-1" ],
    [ instanceType |-> "vm", region |-> "eastus", namePrefix |-> S_web, adminPassword |-> "Passw0rd-2" ],
    [ instanceType |-> "vm", region |-> "eastus", namePrefix |-> S_web ],
    [ instanceType |-> "vm", region |-> "eastus", namePrefix |-> S_web,
      resourceGroupName |-> << "my-rg" >> ],
    [ instanceType |-> "appservice", region |-> "eastus", namePrefix |-> S_web ],
    [ instanceType |-> "vm", region |-> "eastus", namePrefix |-> S_web, dryRun |-> TRUE ],
    [ instanceType |-> "vm", region |-> "eastus", namePrefix |-> S_web, dryRun |-> FALSE ],
    [ instanceType |-> "vm", namePrefix |-> S_web, adminPassword |-> "Passw0rd-1" ],
    [ instanceType |-> "container", region |-> "eastus", namePrefix |-> S_web, adminPassword |-> "Passw0rd-1" ],
    [ instanceType |-> "vm", region |-> "", namePrefix |-> S_web, adminPassword |-> "Passw0rd-1" ],
    [ instanceType |-> "vm", region |-> "eastus", namePrefix |-> S_LongPrefix, adminPassword |-> "Passw0rd-1" ] }

\* the arguments azure.deployBackend is called with
BackendArguments ==
  { [ instanceId |-> "web-vm", deploymentPackage |-> "app.zip", runtime |-> "node" ],
    [ instanceId |-> "non-existent-instance", deploymentPackage |-> "invalid-package.zip",
      runtime |-> "invalid-runtime", dryRun |-> TRUE ],
    [ instanceId |-> "", deploymentPackage |-> "app.zip", runtime |-> "node" ],
    [ instanceId |-> "web-vm", deploymentPackage |-> "app.zip" ] }

\* the arguments azure.deployFrontend is called with
FrontendArguments ==
  { [ instanceId |-> "web-vm", buildDirectory |-> "dist" ],
    [ instanceId |-> "web-vm", buildDirectory |-> "" ],
    [ instanceId |-> "web-vm" ] }

\* what generatePassword() may return
GeneratedPasswords == { "Gen3rated-1", "Gen3rated-2" }

\* resources of the subscription; an id is the sequence of its segments,
\* "/subscriptions/sub-1/resourceGroups/rg-1/..." , or one segment without
\* a slash
T_VirtualMachine == "Microsoft.Compute/virtualMachines"
T_Site == "Microsoft.Web/sites"

ResourceId(provider, kind, name) ==
  << "", "subscriptions", "sub-1", "resourceGroups", "rg-1", "providers", provider, kind, name >>

R_vm1 ==
  [ id |-> ResourceId("Microsoft.Compute", "virtualMachines", "vm1"), name |-> "vm1",
    type |-> T_VirtualMachine ]
R_app1 ==
  [ id |-> ResourceId("Microsoft.Web", "sites", "app1"), name |-> "app1", type |-> T_Site ]
R_app2 ==
  [ id |-> ResourceId("Microsoft.Web", "sites", "app2"), name |-> "app2", type |-> T_Site ]
R_vm2 == [ id |-> << "invalid-resource-id" >>, name |-> "vm2", type |-> T_VirtualMachine ]
R_app3 == [ id |-> << "invalid-resource-id" >>, name |-> "app3", type |-> T_Site ]
R_disk1 ==
  [ id |-> ResourceId("Microsoft.Compute", "disks", "disk1"), name |-> "disk1",
    type |-> "Microsoft.Compute/disks" ]

\* what the remote operations of azure.getExistingServers settle with: the
\* listing first, then the reads of the listed resources in order
ListingWorkloads ==
  { << << Fail(E_BadRequest) >> >>,
    << << Ok(<< >>) >> >>,
    << << Fail(E_TryAgain), Ok(<< R_vm1 >>) >>, << Ok(42) >>, << Ok(42) >> >>,
    << << Ok(<< R_vm1 >>) >>, << Ok(42) >>, << Fail(E_BadRequest) >> >>,
    << << Ok(<< R_vm1, R_app1 >>) >>, << Fail(E_BadRequest) >>, << Ok(42) >> >>,
    << << Ok(<< R_vm2, R_app1 >>) >>, << Ok(42) >> >>,
    << << Ok(<< R_app1, R_vm2 >>) >>, << Fail(E_BadRequest) >> >>,
    << << Ok(<< R_app3, R_disk1, R_vm1 >>) >>, << Ok(42) >>, << Ok(42) >> >>,
    << << Ok(<< R_app1, R_app2 >>) >>, << Ok(42) >>, << Fail(E_BadRequest) >> >> }

\* what the two remote operations of a deployment settle with
ToolWorkloads == { << s, t >> : s \in ShortScripts, t \in ShortScripts }

\* what the three remote operations of the deployment of an App Service
\* settle with
AppServiceWorkloads == { << s, t, u >> : s \in ShortScripts, t \in ShortScripts, u \in ShortScripts }

\* a tools/call request
ToolCall(id, toolName, arguments) ==
  [ jsonrpc |-> "2.0", id |-> id, method |-> "tools/call",
    params |-> [ name |-> toolName, arguments |-> arguments ] ]

\* the JSON-RPC requests the server is sent
Requests ==
  { ToolCall(number(1), "azure.deployMinimalInstance", a) : a \in ToolArguments }
  \cup
  { ToolCall(number(1), "azure.deployBackend", a) : a \in BackendArguments }
  \cup
  { ToolCall(number(1), "azure.deployFrontend", a) : a \in FrontendArguments }
  \cup
  { ToolCall(number(1), "azure.unknown", [ instanceType |-> "vm", adminPassword |-> "Passw0rd-1" ]),
    ToolCall(number(1), "azure.getExistingServers", << >>),
    [ jsonrpc |-> "2.0", id |-> number(1), method |-> "tools/call",
      params |-> [ name |-> "azure.getExistingServers" ] ],
    [ jsonrpc |-> "2.0", id |-> number(1), method |-> "tools/call",
      params |-> [ arguments |-> [ adminPassword |-> "Passw0rd-1" ] ] ],
    [ jsonrpc |-> "2.0", id |-> number(1), method |-> "tools/call" ],
    [ jsonrpc |-> "2.0", id |-> number(1), method |-> "tools/list" ],
    [ jsonrpc |-> "2.0", id |-> number(1), method |-> "initialize" ],
    [ jsonrpc |-> "2.0", id |-> number(1), method |-> "initialized" ],
    [ jsonrpc |-> "2.0", id |-> number(1), method |-> "ping" ],
    [ jsonrpc |-> "1.0", id |-> number(1), method |-> "tools/list" ],
    [ jsonrpc |-> "2.0", id |-> number(1) ] }

\* the requests handled concurrently with one of Requests
ConcurrentRequests ==
  { [ jsonrpc |-> "2.0", id |-> null, method |-> "ping" ],
    [ jsonrpc |-> "2.0", id |-> string("req2"), method |-> "tools/list" ],
    ToolCall(number(2), "azure.deployFrontend", [ instanceId |-> "web-vm", buildDirectory |-> "dist" ]),
    ToolCall(string("req2"), "azure.deployBackend",
             [ instanceId |-> "web-vm", deploymentPackage |-> "app.zip" ]),
    ToolCall(number(2), "azure.deployMinimalInstance",
             [ instanceType |-> "vm", region |-> "eastus", namePrefix |-> S_LongPrefix ]) }

\* the tool a request calls, if it names one
ToolOf(req) ==
  IF "method" \in DOMAIN req /\ req.method = "tools/call" /\ "params" \in DOMAIN req
     /\ "name" \in DOMAIN req.params
    THEN req.params.name
    ELSE "none"

\* the remote operations tried with a request
ToolWorkloadsFor(req) ==
  CASE ToolOf(req) = "azure.deployMinimalInstance" ->
         IF "instanceType" \in DOMAIN req.params.arguments
            /\ req.params.arguments.instanceType = "appservice"
           THEN AppServiceWorkloads ELSE ToolWorkloads
    [] ToolOf(req) = "azure.getExistingServers" -> ListingWorkloads
    [] OTHER -> { << >> }

\* the server as start() leaves it, with two requests to handle; the
\* manager is the one AzureOperations builds: new AzureClientManager(azureConfig)
ToolInit ==
  /\ ManagerInit
  /\ request \in { << r, q >> : r \in Requests, q \in ConcurrentRequests }
  /\ script \in ToolWorkloadsFor(request[1])
  /\ retryOptions = DEFAULT_RETRY_OPTIONS
  /\ context = [ c \in DOMAIN script |-> << >> ]
  /\ facade = [ c \in DOMAIN script |-> "none" ]
  /\ toolPc = << "idle", "idle" >>
  /\ requestStart = << 0, 0 >>
  /\ stderr = << >>
  /\ response = << NoValue, NoValue >>
  /\ frame = << NoValue, NoValue >>
  /\ returned = << NoValue, NoValue >>
  /\ calledFor = [ c \in Calls |-> NoValue ]
  /\ ConfigLoaded
  /\ StdioIdle

\* new Error(message)
toolError(message) == [ isError |-> TRUE, message |-> message ]

createSuccessResponse(id, res) == [ jsonrpc |-> "2.0", id |-> id, result |-> res ]

\* variant: an error response carries no id
createErrorResponse_NullId(id, error) == [ jsonrpc |-> "2.0", id |-> null, error |-> error ]

createErrorResponse(id, error) == [ jsonrpc |-> "2.0", id |-> id, error |-> error ]

\* the text formatToolResult puts together: status, tool, time, resource id
\* if any, operation and the details as JSON
formatToolResult(toolName, r) ==
  [ status |-> IF r.success THEN "SUCCESS" ELSE "FAILED",
    tool |-> toolName,
    time |-> r.timestamp,
    resourceId |-> IF "resourceId" \in DOMAIN r THEN r.resourceId ELSE Undefined,
    operation |-> r.operation,
    details |-> r.details ]

\* the first field of schema.required that is not in params, 0 if there is
\* none
validateParams(params, required) ==
  LET missing == { k \in DOMAIN required : required[k] \notin DOMAIN params }
  IN IF missing = {} THEN 0 ELSE CHOOSE k \in missing : \A j \in missing : k <= j

\* !params[k] for a field that holds a string when it is there
falsy(params, k) == k \notin DOMAIN params \/ params[k] = ""

\* variant: the length of namePrefix is not checked
validateDeployMinimalInstanceParams_NoLength(params) ==
  IF falsy(params, "instanceType") \/ params.instanceType \notin { "vm", "appservice" }
    THEN << "instanceType must be either \"vm\" or \"appservice\"" >>
    ELSE IF falsy(params, "region")
      THEN << "region is required and must be a string" >>
      ELSE IF "namePrefix" \notin DOMAIN params \/ Len(params.namePrefix) = 0
        THEN << "namePrefix is required and must be a string" >>
        ELSE << >>

\* the message of the error validateDeployMinimalInstanceParams throws,
\* << >> if it throws none
validateDeployMinimalInstanceParams(params) ==
  IF falsy(params, "instanceType") \/ params.instanceType \notin { "vm", "appservice" }
    THEN << "instanceType must be either \"vm\" or \"appservice\"" >>
    ELSE IF falsy(params, "region")
      THEN << "region is required and must be a string" >>
      ELSE IF "namePrefix" \notin DOMAIN params \/ Len(params.namePrefix) = 0
        THEN << "namePrefix is required and must be a string" >>
        ELSE IF Len(params.namePrefix) > 20
          THEN << "namePrefix must be 20 characters or less" >>
          ELSE << >>

\* the message of the error validateDeployBackendParams throws, << >> if it
\* throws none
validateDeployBackendParams(params) ==
  IF falsy(params, "instanceId")
    THEN << "instanceId is required and must be a string" >>
    ELSE IF falsy(params, "deploymentPackage")
      THEN << "deploymentPackage is required and must be a string" >>
      ELSE IF falsy(params, "runtime")
              \/ params.runtime \notin { "node", "python", "dotnet", "java", "php" }
        THEN << "runtime must be one of: node, python, dotnet, java, php" >>
        ELSE << >>

\* the message of the error validateDeployFrontendParams throws, << >> if it
\* throws none
validateDeployFrontendParams(params) ==
  IF falsy(params, "instanceId")
    THEN << "instanceId is required and must be a string" >>
    ELSE IF falsy(params, "buildDirectory")
      THEN << "buildDirectory is required and must be a string" >>
      ELSE << >>

\* resourceId.match(/\/resourceGroups\/([^/]+)\//): the segment after
\* "/resourceGroups/" when it is not empty and a slash follows it, as
\* [ group |-> segment ]; NoValue when the method throws
extractResourceGroupFromId(id) ==
  LET at == { k \in 2..(Len(id) - 2) : id[k] = "resourceGroups" /\ id[k + 1] # "" }
  IN IF at = {}
       THEN NoValue
       ELSE [ group |-> id[(CHOOSE k \in at : \A j \in at : k <= j) + 1] ]

\* the call the next facade method invoked is
freeCall == Cardinality({ c \in Calls : pc[c] # "idle" }) + 1

\* a facade method f of the manager is called with context ctx, as call c
clientCall(c, f, ctx) ==
  /\ executeWithRetry(c)
  /\ facade' = [ facade EXCEPT ![c] = f ]
  /\ context' = [ context EXCEPT ![c] = ctx ]

\* handleRequest call i returns resp after the lines L were written; the
\* tool operation, if one ran, returned r and its locals are f
respond(i, L, resp, r, f) ==
  /\ toolPc' = [ toolPc EXCEPT ![i] = "done" ]
  /\ stderr' = stderr \o L
  /\ response' = [ response EXCEPT ![i] = resp ]
  /\ returned' = [ returned EXCEPT ![i] = r ]
  /\ frame' = [ frame EXCEPT ![i] = f ]
  /\ UNCHANGED << now, callVars, probeVars, calledFor >>
  /\ UNCHANGED configVars
  /\ UNCHANGED stdioVars

\* the catch block of handleRequest
requestFails(i, L, t, error) ==
  respond(i,
          L \o << [ text |-> "JSON-RPC request failed", duration |-> now - t,
                    data |-> [ id |-> request[i].id,
                               method |-> IF "method" \in DOMAIN request[i]
                                            THEN request[i].method ELSE Undefined,
                               error |-> error.message ] ] >>,
          createErrorResponse(request[i].id, [ code |-> -32603, message |-> error.message ]),
          returned[i], frame[i])

\* the catch block of callTool
toolFails(i, L, t, toolName, error) ==
  respond(i,
          L \o << [ text |-> "Tool execution failed", tool |-> toolName,
                    duration |-> now - t, data |-> error ] >>,
          createErrorResponse(request[i].id,
            [ code |-> -32000,
              message |-> << "Tool execution failed: " >> \o error.message ]),
          returned[i], frame[i])

\* callTool after the handler, whose locals are f, returned r
toolCompletes(i, L, t, toolName, r, f) ==
  respond(i,
          L \o << [ text |-> "Tool execution completed", tool |-> toolName,
                    duration |-> now - t ] >>,
          createSuccessResponse(request[i].id,
            [ content |-> << [ type |-> "text", text |-> formatToolResult(toolName, r) ] >> ]),
          r, f)

\* the handler of a tool starts to await the facade method m, called for
\* the resource named name with the resource names in names as its
\* parameters, after the lines L were written
awaitClient(i, L, m, ctx, name, names, f) ==
  /\ toolPc' = [ toolPc EXCEPT ![i] = m ]
  /\ stderr' = stderr \o L
  /\ clientCall(freeCall, m, ctx)
  /\ frame' = [ frame EXCEPT ![i] = [ awaited |-> freeCall ] @@ f ]
  /\ calledFor' = [ calledFor EXCEPT ![freeCall] =
                     [ request |-> i, resource |-> name, target |-> names ] ]
  /\ UNCHANGED << response, returned >>

\* the promise handleRequest call i awaits at position p has settled
resumes(i, p) ==
  /\ toolPc[i] = p
  /\ pc[frame[i].awaited] = "settled"
  /\ Quiescent

\* how the awaited promise settled
awaitedResult(i) == result[frame[i].awaited]

\* the locals of the handler without the call it awaited
locals(i) == [ k \in DOMAIN frame[i] \ { "awaited" } |-> frame[i][k] ]

(***************************************************************************)
(* azure.deployMinimalInstance (virtual machine)                           *)
(***************************************************************************)
\* the catch block of deployMinimalInstance, and callTool after it
deployFails(i, L, t, params, error, f) ==
  toolCompletes(i,
                L \o << [ text |-> "Failed operation",
                          operation |-> "azure.deployMinimalInstance",
                          duration |-> now - t, data |-> error ] >>,
                t, "azure.deployMinimalInstance",
                [ success |-> FALSE,
                  operation |-> "azure.deployMinimalInstance",
                  details |-> [ resourceId |-> "", name |-> "failed-deployment",
                                resourceGroup |-> "error", status |-> "Failed",
                                region |-> IF "region" \in DOMAIN params
                                             THEN params.region ELSE Undefined ],
                  timestamp |-> now ],
                f)

\* params.resourceGroupName ||
\*   `${config.getConfig().resourceGroupPrefix}-${params.namePrefix}-${Date.now()}`
resourceGroupNameOf(params) ==
  IF "resourceGroupName" \in DOMAIN params /\ params.resourceGroupName # << >>
    THEN params.resourceGroupName
    ELSE << profiles[activeProfile].resourceGroupPrefix, "-" >> \o params.namePrefix
           \o << "-" >> \o decimal(now)

\* deployVirtualMachine up to its first await, which is in the
\* executeWithRetry call of createResourceGroup: the names are made first
deployVirtualMachine(i, L, params, f) ==
  LET resourceGroupName == resourceGroupNameOf(params)
      vmName == params.namePrefix \o << "-vm" >>
  IN awaitClient(i, L, "createResourceGroup", << >>, resourceGroupName,
                 << resourceGroupName >>,
                 [ resourceGroupName |-> resourceGroupName, vmName |-> vmName ] @@ f)

\* deployAppService up to its first await, likewise
deployAppService(i, L, params, f) ==
  LET resourceGroupName == resourceGroupNameOf(params)
      appName == params.namePrefix \o << "-app-" >> \o decimal(now)
      planName == params.namePrefix \o << "-plan" >>
  IN awaitClient(i, L, "createResourceGroup", << >>, resourceGroupName,
                 << resourceGroupName >>,
                 [ resourceGroupName |-> resourceGroupName, appName |-> appName,
                   planName |-> planName ] @@ f)

\* deployMinimalInstance up to its first await
deployMinimalInstance(i, L, params) ==
  LET L1 == L \o << [ text |-> "Starting operation",
                      operation |-> "azure.deployMinimalInstance",
                      data |-> [ params |-> params ] ] >>
      invalid == validateDeployMinimalInstanceParams(params)
      f == [ tool |-> "azure.deployMinimalInstance", params |-> params ]
  IN IF invalid # << >>
       THEN deployFails(i, L1, now, params, toolError(invalid), f)
       ELSE IF params.instanceType = "vm"
         THEN deployVirtualMachine(i, L1, params, f)
         ELSE IF params.instanceType = "appservice"
           THEN deployAppService(i, L1, params, f)
           ELSE deployFails(i, L1, now, params,
                  toolError(<< "Unsupported instance type: ", params.instanceType >>), f)

\* variant: the credentials returned are those of the machine
credentials_OfMachine(params, vmConfig) ==
  [ username |-> vmConfig.osProfile.adminUsername,
    password |-> vmConfig.osProfile.adminPassword ]

\* accessInfo.credentials of the result of deployVirtualMachine
credentials(params, vmConfig) ==
  [ username |-> IF "adminUsername" \in DOMAIN params THEN params.adminUsername ELSE "azureuser",
    password |-> "[REDACTED]" ]

\* deployVirtualMachine or deployAppService continues after
\* `await createResourceGroup(...)`: the failure goes to the catch block of
\* deployMinimalInstance; otherwise, for a virtual machine, vmConfig is
\* built, with the password given or a generated one, and
\* createVirtualMachine is called, and for an App Service
\* createAppServicePlan is called
resourceGroupCreated(i) ==
  /\ resumes(i, "createResourceGroup")
  /\ LET params == frame[i].params
     IN IF awaitedResult(i).status = "rejected"
          THEN deployFails(i, << >>, requestStart[i], params, awaitedResult(i).value, frame[i])
          ELSE IF params.instanceType = "vm"
            THEN \E generated \in GeneratedPasswords :
                   awaitClient(i, << >>, "createVirtualMachine", << >>, frame[i].vmName,
                     << frame[i].resourceGroupName, frame[i].vmName >>,
                     [ vmConfig |->
                         [ location |-> params.region,
                           osProfile |->
                             [ computerName |-> frame[i].vmName,
                               adminUsername |-> IF "adminUsername" \in DOMAIN params
                                                   THEN params.adminUsername ELSE "azureuser",
                               adminPassword |-> IF "adminPassword" \in DOMAIN params
                                                   THEN params.adminPassword ELSE generated ] ] ]
                     @@ locals(i))
            ELSE awaitClient(i, << >>, "createAppServicePlan", << >>, frame[i].planName,
                             << frame[i].resourceGroupName, frame[i].planName >>, locals(i))
  /\ UNCHANGED << request, requestStart >>

\* deployVirtualMachine continues after `await createVirtualMachine(...)`
virtualMachineCreated(i) ==
  /\ resumes(i, "createVirtualMachine")
  /\ LET params == frame[i].params
     IN IF awaitedResult(i).status = "rejected"
          THEN deployFails(i, << >>, requestStart[i], params, awaitedResult(i).value, frame[i])
          ELSE toolCompletes(i,
                 << [ text |-> "Completed operation",
                      operation |-> "azure.deployMinimalInstance",
                      duration |-> now - requestStart[i] ] >>,
                 requestStart[i], "azure.deployMinimalInstance",
                 [ success |-> TRUE,
                   operation |-> "azure.deployMinimalInstance",
                   resourceId |-> awaitedResult(i).value,
                   details |->
                     [ resourceId |-> awaitedResult(i).value,
                       name |-> frame[i].vmName,
                       resourceGroup |-> frame[i].resourceGroupName,
                       status |-> "Created",
                       region |-> params.region,
                       accessInfo |->
                         [ credentials |-> credentials(params, frame[i].vmConfig) ] ],
                   timestamp |-> now ],
                 frame[i])
  /\ UNCHANGED << request, requestStart >>

\* variant: the App Service is created whether or not the plan was
appServicePlanCreated_Regardless(i) ==
  /\ resumes(i, "createAppServicePlan")
  /\ awaitClient(i, << >>, "createAppService", << >>, frame[i].appName,
                 << frame[i].resourceGroupName, frame[i].appName >>, locals(i))
  /\ UNCHANGED << request, requestStart >>

\* deployAppService continues after `await createAppServicePlan(...)`
appServicePlanCreated(i) ==
  /\ resumes(i, "createAppServicePlan")
  /\ LET params == frame[i].params
     IN IF awaitedResult(i).status = "rejected"
          THEN deployFails(i, << >>, requestStart[i], params, awaitedResult(i).value, frame[i])
          ELSE awaitClient(i, << >>, "createAppService", << >>, frame[i].appName,
                           << frame[i].resourceGroupName, frame[i].appName >>, locals(i))
  /\ UNCHANGED << request, requestStart >>

\* deployAppService continues after `await createAppService(...)`
appServiceCreated(i) ==
  /\ resumes(i, "createAppService")
  /\ LET params == frame[i].params
     IN IF awaitedResult(i).status = "rejected"
          THEN deployFails(i, << >>, requestStart[i], params, awaitedResult(i).value, frame[i])
          ELSE toolCompletes(i,
                 << [ text |-> "Completed operation",
                      operation |-> "azure.deployMinimalInstance",
                      duration |-> now - requestStart[i] ] >>,
                 requestStart[i], "azure.deployMinimalInstance",
                 [ success |-> TRUE,
                   operation |-> "azure.deployMinimalInstance",
                   resourceId |-> awaitedResult(i).value,
                   details |->
                     [ resourceId |-> awaitedResult(i).value,
                       name |-> frame[i].appName,
                       resourceGroup |-> frame[i].resourceGroupName,
                       status |-> "Created",
                       region |-> params.region,
                       accessInfo |->
                         [ adminUrl |-> << "https://portal.azure.com/#resource",
                                           awaitedResult(i).value >> ] ],
                   timestamp |-> now ],
                 frame[i])
  /\ UNCHANGED << request, requestStart >>

(***************************************************************************)
(* azure.deployBackend and azure.deployFrontend.  They call no facade      *)
(* method: their awaits are of promises that are already settled, so the   *)
(* handler runs to its return before a timer or another request is served. *)
(***************************************************************************)
\* deployBackendApplication
deployBackendApplication(params) ==
  [ deploymentId |-> << "deploy-", now >>,
    applicationUrl |-> << "https://", params.instanceId, ".azurewebsites.net" >>,
    status |-> "succeeded",
    runtime |-> params.runtime ]

\* deployFrontendApplication
deployFrontendApplication(params) ==
  [ deploymentId |-> << "frontend-deploy-", now >>,
    publicUrl |-> << "https://", "frontend", now, ".z13.web.core.windows.net/" >>,
    status |-> "succeeded",
    storageAccountName |-> << "frontend", now >> ]

\* variant: a deployment that fails raises to callTool
deployBackend_Raises(i, L, params) ==
  LET L1 == L \o << [ text |-> "Starting operation", operation |-> "azure.deployBackend",
                      data |-> [ params |-> params ] ] >>
      invalid == validateDeployBackendParams(params)
      f == [ tool |-> "azure.deployBackend", params |-> params ]
  IN IF invalid # << >>
       THEN respond(i,
              L1 \o << [ text |-> "Tool execution failed", tool |-> "azure.deployBackend",
                         duration |-> 0, data |-> toolError(invalid) ] >>,
              createErrorResponse(request[i].id,
                [ code |-> -32000,
                  message |-> << "Tool execution failed: " >> \o invalid ]),
              returned[i], f)
       ELSE toolCompletes(i,
              L1 \o << [ text |-> "Completed operation", operation |-> "azure.deployBackend",
                         duration |-> 0 ] >>,
              now, "azure.deployBackend",
              [ success |-> TRUE, operation |-> "azure.deployBackend",
                resourceId |-> params.instanceId,
                details |-> deployBackendApplication(params),
                timestamp |-> now ],
              f)

\* deployBackend, and callTool after it
deployBackend(i, L, params) ==
  LET L1 == L \o << [ text |-> "Starting operation", operation |-> "azure.deployBackend",
                      data |-> [ params |-> params ] ] >>
      invalid == validateDeployBackendParams(params)
      f == [ tool |-> "azure.deployBackend", params |-> params ]
  IN IF invalid # << >>
       THEN toolCompletes(i,
              L1 \o << [ text |-> "Failed operation", operation |-> "azure.deployBackend",
                         duration |-> 0, data |-> toolError(invalid) ] >>,
              now, "azure.deployBackend",
              [ success |-> FALSE, operation |-> "azure.deployBackend",
                details |-> [ deploymentId |-> "failed-deployment", applicationUrl |-> "",
                              status |-> "failed", runtime |-> params.runtime ],
                timestamp |-> now ],
              f)
       ELSE toolCompletes(i,
              L1 \o << [ text |-> "Completed operation", operation |-> "azure.deployBackend",
                         duration |-> 0 ] >>,
              now, "azure.deployBackend",
              [ success |-> TRUE, operation |-> "azure.deployBackend",
                resourceId |-> params.instanceId,
                details |-> deployBackendApplication(params),
                timestamp |-> now ],
              f)

\* deployFrontend, and callTool after it
deployFrontend(i, L, params) ==
  LET L1 == L \o << [ text |-> "Starting operation", operation |-> "azure.deployFrontend",
                      data |-> [ params |-> params ] ] >>
      invalid == validateDeployFrontendParams(params)
      f == [ tool |-> "azure.deployFrontend", params |-> params ]
  IN IF invalid # << >>
       THEN toolCompletes(i,
              L1 \o << [ text |-> "Failed operation", operation |-> "azure.deployFrontend",
                         duration |-> 0, data |-> toolError(invalid) ] >>,
              now, "azure.deployFrontend",
              [ success |-> FALSE, operation |-> "azure.deployFrontend",
                details |-> [ deploymentId |-> "failed-deployment", publicUrl |-> "",
                              status |-> "failed" ],
                timestamp |-> now ],
              f)
       ELSE toolCompletes(i,
              L1 \o << [ text |-> "Completed operation", operation |-> "azure.deployFrontend",
                         duration |-> 0 ] >>,
              now, "azure.deployFrontend",
              [ success |-> TRUE, operation |-> "azure.deployFrontend",
                resourceId |-> params.instanceId,
                details |-> deployFrontendApplication(params),
                timestamp |-> now ],
              f)

(***************************************************************************)
(* azure.getExistingServers                                                *)
(***************************************************************************)
\* the catch block of getExistingServers, and callTool after it
existingServersFail(i, L, t, error, f) ==
  toolCompletes(i,
                L \o << [ text |-> "Failed operation", operation |-> "azure.getExistingServers",
                          duration |-> now - t, data |-> error ] >>,
                t, "azure.getExistingServers",
                [ success |-> FALSE, operation |-> "azure.getExistingServers",
                  details |-> << >>, timestamp |-> now ],
                f)

\* getExistingServers up to its first await, which is in the
\* executeWithRetry call of getAllComputeResources
getExistingServers(i, L) ==
  awaitClient(i,
              L \o << [ text |-> "Starting operation",
                        operation |-> "azure.getExistingServers" ] >>,
              "getAllComputeResources", K_operation :> "azure.getExistingServers", "", << >>,
              [ tool |-> "azure.getExistingServers", resources |-> << >>, cursor |-> 0,
                computeResources |-> << >> ])

\* processVirtualMachine and processAppService read the details of the
\* resource: it is of one of the two types and its id names a resource group
isRead(resource) ==
  /\ resource.type \in { T_VirtualMachine, T_Site }
  /\ extractResourceGroupFromId(resource.id) # NoValue

\* the first resource from the k-th on whose details are read, Len + 1 if
\* there is none
nextRead(resources, k) ==
  LET read == { j \in k..Len(resources) : isRead(resources[j]) }
  IN IF read = {} THEN Len(resources) + 1 ELSE CHOOSE j \in read : \A h \in read : j <= h

\* the catch block of processVirtualMachine and of processAppService
processFails(resource) ==
  [ text |-> IF resource.type = T_VirtualMachine
               THEN "Failed to process VM" ELSE "Failed to process App Service",
    resource |-> resource.name ]

\* the lines written for the resources from the k-th to the j-th, none of
\* which is read
RECURSIVE passedOver(_, _, _)
passedOver(resources, k, j) ==
  IF k > j
    THEN << >>
    ELSE (IF resources[k].type \in { T_VirtualMachine, T_Site }
            THEN << processFails(resources[k]) >> ELSE << >>)
         \o passedOver(resources, k + 1, j)

\* the details processVirtualMachine and processAppService return
resourceDetails(resource) ==
  [ id |-> resource.id,
    name |-> resource.name,
    type |-> IF resource.type = T_VirtualMachine THEN "Virtual Machine" ELSE "App Service",
    region |-> "Unknown",
    resourceGroup |-> extractResourceGroupFromId(resource.id).group ]

\* variant: a resource that cannot be processed fails the operation
processNext_FailFast(i, L, resources, k, found) ==
  LET j == nextRead(resources, k)
      f == [ resources |-> resources, cursor |-> j, computeResources |-> found ] @@ locals(i)
  IN IF L # << >> \/ passedOver(resources, k, j - 1) # << >>
       THEN existingServersFail(i, L, requestStart[i], toolError(<< "Failed to process resource" >>), f)
       ELSE IF j > Len(resources)
         THEN toolCompletes(i,
                << [ text |-> "Completed operation", operation |-> "azure.getExistingServers",
                     duration |-> now - requestStart[i] ] >>,
                requestStart[i], "azure.getExistingServers",
                [ success |-> TRUE, operation |-> "azure.getExistingServers",
                  details |-> found, timestamp |-> now ],
                f)
         ELSE awaitClient(i, << >>,
                IF resources[j].type = T_VirtualMachine THEN "getVirtualMachine" ELSE "getAppService",
                << >>, resources[j].name,
              << extractResourceGroupFromId(resources[j].id).group, resources[j].name >>, f)

\* the loop of getExistingServers goes on with the k-th resource, with the
\* details in found collected and the lines L written: up to the next
\* await, or to the return
processNext(i, L, resources, k, found) ==
  LET j == nextRead(resources, k)
      L1 == L \o passedOver(resources, k, j - 1)
      f == [ resources |-> resources, cursor |-> j, computeResources |-> found ] @@ locals(i)
  IN IF j > Len(resources)
       THEN toolCompletes(i,
              L1 \o << [ text |-> "Completed operation", operation |-> "azure.getExistingServers",
                         duration |-> now - requestStart[i] ] >>,
              requestStart[i], "azure.getExistingServers",
              [ success |-> TRUE, operation |-> "azure.getExistingServers",
                details |-> found, timestamp |-> now ],
              f)
       ELSE awaitClient(i, L1,
              IF resources[j].type = T_VirtualMachine THEN "getVirtualMachine" ELSE "getAppService",
              << >>, resources[j].name,
              << extractResourceGroupFromId(resources[j].id).group, resources[j].name >>, f)

\* getExistingServers continues after `await getAllComputeResources(...)`
resourcesListed(i) ==
  /\ resumes(i, "getAllComputeResources")
  /\ IF awaitedResult(i).status = "rejected"
       THEN existingServersFail(i, << >>, requestStart[i], awaitedResult(i).value, frame[i])
       ELSE processNext(i, << >>, awaitedResult(i).value, 1, << >>)
  /\ UNCHANGED << request, requestStart >>

\* processVirtualMachine continues after `await getVirtualMachine(...)`
virtualMachineRead(i) ==
  /\ resumes(i, "getVirtualMachine")
  /\ LET resource == frame[i].resources[frame[i].cursor]
     IN IF awaitedResult(i).status = "rejected"
          THEN processNext(i, << processFails(resource) >>, frame[i].resources,
                           frame[i].cursor + 1, frame[i].computeResources)
          ELSE awaitClient(i, << >>, "getVirtualMachineInstanceView", << >>, resource.name,
                           << extractResourceGroupFromId(resource.id).group, resource.name >>,
                           locals(i))
  /\ UNCHANGED << request, requestStart >>

\* processVirtualMachine continues after
\* `await getVirtualMachineInstanceView(...)`
instanceViewRead(i) ==
  /\ resumes(i, "getVirtualMachineInstanceView")
  /\ LET resource == frame[i].resources[frame[i].cursor]
     IN IF awaitedResult(i).status = "rejected"
          THEN processNext(i, << processFails(resource) >>, frame[i].resources,
                           frame[i].cursor + 1, frame[i].computeResources)
          ELSE processNext(i, << >>, frame[i].resources, frame[i].cursor + 1,
                           Append(frame[i].computeResources, resourceDetails(resource)))
  /\ UNCHANGED << request, requestStart >>

\* processAppService continues after `await getAppService(...)`
appServiceRead(i) ==
  /\ resumes(i, "getAppService")
  /\ LET resource == frame[i].resources[frame[i].cursor]
     IN IF awaitedResult(i).status = "rejected"
          THEN processNext(i, << processFails(resource) >>, frame[i].resources,
                           frame[i].cursor + 1, frame[i].computeResources)
          ELSE processNext(i, << >>, frame[i].resources, frame[i].cursor + 1,
                           Append(frame[i].computeResources, resourceDetails(resource)))
  /\ UNCHANGED << request, requestStart >>

(***************************************************************************)
(* callTool and handleRequest                                              *)
(***************************************************************************)
\* variant: the handler runs before the parameters are validated
callTool_HandlerFirst(i, L, toolName, params) ==
  LET L1 == L \o << [ text |-> "Calling tool", tool |-> toolName,
                      data |-> [ params |-> params ] ] >>
  IN IF toolName \notin RegisteredTools
       THEN toolFails(i, L1, now, toolName, toolError(<< "Tool not found: ", toolName >>))
       ELSE IF toolName = "azure.getExistingServers"
         THEN getExistingServers(i, L1)
         ELSE IF validateParams(params, RequiredParams[toolName]) # 0
           THEN respond(i,
                  L1 \o << [ text |-> "Tool execution failed", tool |-> toolName,
                             duration |-> 0,
                             data |-> toolError(<< "Missing required parameter: ",
                                          RequiredParams[toolName][validateParams(params, RequiredParams[toolName])] >>) ] >>,
                  createErrorResponse(request[i].id,
                    [ code |-> -32000,
                      message |-> << "Tool execution failed: ", "Missing required parameter: ",
                                     RequiredParams[toolName][validateParams(params, RequiredParams[toolName])] >> ]),
                  returned[i], [ tool |-> toolName, params |-> params ])
           ELSE CASE toolName = "azure.deployMinimalInstance" -> deployMinimalInstance(i, L1, params)
                  [] toolName = "azure.deployBackend" -> deployBackend(i, L1, params)
                  [] toolName = "azure.deployFrontend" -> deployFrontend(i, L1, params)

\* callTool up to its first await that suspends it: the tool is looked up,
\* the parameters are validated and the handler is called
callTool(i, L, toolName, params) ==
  LET L1 == L \o << [ text |-> "Calling tool", tool |-> toolName,
                      data |-> [ params |-> params ] ] >>
  IN IF toolName \notin RegisteredTools
       THEN toolFails(i, L1, now, toolName, toolError(<< "Tool not found: ", toolName >>))
       ELSE IF validateParams(params, RequiredParams[toolName]) # 0
         THEN toolFails(i, L1, now, toolName,
                toolError(<< "Missing required parameter: ",
                             RequiredParams[toolName][validateParams(params, RequiredParams[toolName])] >>))
         ELSE CASE toolName = "azure.getExistingServers" -> getExistingServers(i, L1)
                [] toolName = "azure.deployMinimalInstance" -> deployMinimalInstance(i, L1, params)
                [] toolName = "azure.deployBackend" -> deployBackend(i, L1, params)
                [] toolName = "azure.deployFrontend" -> deployFrontend(i, L1, params)

\* the server is given request i: handleRequest up to its first await that
\* suspends it
handleRequest(i) ==
  /\ toolPc[i] = "idle"
  /\ request[i] # NoValue
  /\ Quiescent
  /\ requestStart' = [ requestStart EXCEPT ![i] = now ]
  /\ LET req == request[i]
         L == << [ text |-> "Handling JSON-RPC request",
                   data |-> [ id |-> req.id,
                              method |-> IF "method" \in DOMAIN req THEN req.method ELSE Undefined,
                              hasParams |-> "params" \in DOMAIN req ] ] >>
     IN IF req.jsonrpc # "2.0"
          THEN requestFails(i, L, now, toolError(<< "Invalid JSON-RPC version. Expected \"2.0\"" >>))
          ELSE IF "method" \notin DOMAIN req
            THEN requestFails(i, L, now, toolError(<< "Invalid or missing method in JSON-RPC request" >>))
            ELSE IF req.method = "tools/list"
              THEN respond(i, L, createSuccessResponse(req.id, [ tools |-> RegisteredTools ]),
                           returned[i], frame[i])
              ELSE IF req.method = "tools/call"
                THEN IF "params" \notin DOMAIN req \/ "name" \notin DOMAIN req.params
                       THEN requestFails(i, L, now, toolError(<< "Missing tool name in tools/call request" >>))
                       ELSE callTool(i, L, req.params.name,
                                     IF "arguments" \in DOMAIN req.params
                                       THEN req.params.arguments ELSE << >>)
                ELSE IF req.method = "initialize"
                  THEN respond(i, L, createSuccessResponse(req.id,
                         [ protocolVersion |-> "2024-11-05",
                           capabilities |-> [ tools |-> [ listChanged |-> FALSE ] ],
                           serverInfo |-> [ name |-> "mcp-azure-deployment-service",
                                            version |-> "1.0.0" ] ]),
                         returned[i], frame[i])
                  ELSE IF req.method = "initialized"
                    THEN respond(i, L, createSuccessResponse(req.id, << >>), returned[i], frame[i])
                    ELSE requestFails(i, L, now, toolError(<< "Unknown method: ", req.method >>))
  /\ UNCHANGED request

ToolNext ==
  \/ \E i \in Handlings : handleRequest(i)
  \/ \E i \in Handlings : resourceGroupCreated(i)
  \/ \E i \in Handlings : virtualMachineCreated(i)
  \/ \E i \in Handlings : appServicePlanCreated(i)
  \/ \E i \in Handlings : appServiceCreated(i)
  \/ \E i \in Handlings : resourcesListed(i)
  \/ \E i \in Handlings : virtualMachineRead(i)
  \/ \E i \in Handlings : instanceViewRead(i)
  \/ \E i \in Handlings : appServiceRead(i)
  \/ \E c \in Calls : applyRateLimit(c)
  \/ \E c \in Calls : enterLoop(c)
  \/ \E c \in Calls : operationSettles(c)
  \/ \E c \in Calls : sleepResume(c)
  \/ Tick
  \/ TimerDue

ToolSpec == ToolInit /\ [][ToolNext]_vars

(***************************************************************************)
(* The configuration manager (src/dist/config/index.js): the profiles, the *)
(* active profile and the operations on them, called in any order by the   *)
(* code that uses the singleton (specification ConfigSpec).  A call that   *)
(* throws is a step that records the error.                                *)
(***************************************************************************)
\* the manager as its constructor leaves it: the default profile from the
\* environment, and the profiles of config.json if there is one
ConfigInit ==
  /\ ManagerInit
  /\ script = << >>
  /\ retryOptions = DEFAULT_RETRY_OPTIONS
  /\ context = << >>
  /\ facade = << >>
  /\ toolPc = << "off", "off" >>
  /\ request = << NoValue, NoValue >>
  /\ requestStart = << 0, 0 >>
  /\ stderr = << >>
  /\ response = << NoValue, NoValue >>
  /\ frame = << NoValue, NoValue >>
  /\ returned = << NoValue, NoValue >>
  /\ calledFor = [ c \in Calls |-> NoValue ]
  /\ profiles \in { "default" :> validateConfiguration(C_environment).value,
                    ("default" :> validateConfiguration(C_environment).value)
                       @@ ("prod" :> validateConfiguration(C_temp).value) }
  /\ activeProfile = "default"
  /\ configCall = NoValue
  /\ configCalls = 0
  /\ StdioIdle

\* Map.prototype.set
mapSet(map, key, value) == (key :> value) @@ map

\* Map.prototype.delete
mapDelete(map, key) == [ k \in DOMAIN map \ { key } |-> map[k] ]

\* the call of operation op with the arguments args ends: it returned, or
\* it threw an Error with the message
callEnds(op, args, threw, message) ==
  /\ configCalls < MaxConfigCalls
  /\ configCalls' = configCalls + 1
  /\ configCall' = [ op |-> op, args |-> args, threw |-> threw, message |-> message,
                     before |-> [ profiles |-> profiles, activeProfile |-> activeProfile ] ]
  /\ UNCHANGED << now, callVars, probeVars, toolVars, stdioVars >>

getConfig ==
  /\ IF activeProfile \notin DOMAIN profiles
       THEN callEnds("getConfig", << >>, TRUE, << "Profile '", activeProfile, "' not found" >>)
       ELSE callEnds("getConfig", << >>, FALSE, << >>)
  /\ UNCHANGED << profiles, activeProfile >>

getProfileConfig(profileName) ==
  /\ IF profileName \notin DOMAIN profiles
       THEN callEnds("getProfileConfig", << profileName >>, TRUE,
                     << "Profile '", profileName, "' not found" >>)
       ELSE callEnds("getProfileConfig", << profileName >>, FALSE, << >>)
  /\ UNCHANGED << profiles, activeProfile >>

setActiveProfile(profileName) ==
  IF profileName \notin DOMAIN profiles
    THEN /\ callEnds("setActiveProfile", << profileName >>, TRUE,
                     << "Profile '", profileName, "' not found" >>)
         /\ UNCHANGED << profiles, activeProfile >>
    ELSE /\ activeProfile' = profileName
         /\ callEnds("setActiveProfile", << profileName >>, FALSE, << >>)
         /\ UNCHANGED profiles

\* variant: the profile is stored before it is validated
addProfile_SetFirst(name, config) ==
  /\ profiles' = mapSet(profiles, name, config)
  /\ callEnds("addProfile", << name, config >>, validateConfiguration(config).error,
              IF validateConfiguration(config).error
                THEN << validateConfiguration(config).message >> ELSE << >>)
  /\ UNCHANGED activeProfile

addProfile(name, config) ==
  LET validated == validateConfiguration(config)
  IN IF validated.error
       THEN /\ callEnds("addProfile", << name, config >>, TRUE, << validated.message >>)
            /\ UNCHANGED << profiles, activeProfile >>
       ELSE /\ profiles' = mapSet(profiles, name, validated.value)
            /\ callEnds("addProfile", << name, config >>, FALSE, << >>)
            /\ UNCHANGED activeProfile

\* variant: the active profile is left as it is
removeProfile_KeepActive(name) ==
  IF name = "default"
    THEN /\ callEnds("removeProfile", << name >>, TRUE, << "Cannot remove default profile" >>)
         /\ UNCHANGED << profiles, activeProfile >>
    ELSE /\ profiles' = mapDelete(profiles, name)
         /\ callEnds("removeProfile", << name >>, FALSE, << >>)
         /\ UNCHANGED activeProfile

removeProfile(name) ==
  IF name = "default"
    THEN /\ callEnds("removeProfile", << name >>, TRUE, << "Cannot remove default profile" >>)
         /\ UNCHANGED << profiles, activeProfile >>
    ELSE /\ activeProfile' = IF activeProfile = name THEN "default" ELSE activeProfile
         /\ profiles' = mapDelete(profiles, name)
         /\ callEnds("removeProfile", << name >>, FALSE, << >>)

\* the call of operation op with the arguments args returned the value
callReturns(op, args, value) ==
  /\ configCalls < MaxConfigCalls
  /\ configCalls' = configCalls + 1
  /\ configCall' = [ op |-> op, args |-> args, threw |-> FALSE, message |-> << >>,
                     returned |-> value,
                     before |-> [ profiles |-> profiles, activeProfile |-> activeProfile ] ]
  /\ UNCHANGED << now, callVars, probeVars, toolVars, stdioVars >>

\* Array.from(this.profiles.keys()); the order of insertion is left out
getAvailableProfiles(map) == DOMAIN map

\* !!value of a string: a string is truthy unless it is empty (the client
\* ids are sequences of characters here, the client secrets strings)
truthy(value) == value # << >>
truthySecret(value) == value # ""

\* variant: the summary carries the client id as well
summaryOf_WithClientId(map, active) ==
  LET config == map[active]
  IN [ activeProfile |-> active,
       availableProfiles |-> getAvailableProfiles(map),
       subscriptionId |-> config.subscriptionId,
       tenantId |-> config.tenantId,
       defaultRegion |-> config.defaultRegion,
       resourceGroupPrefix |-> config.resourceGroupPrefix,
       environment |-> config.environment,
       defaultVmSize |-> config.defaultVmSize,
       defaultAppServicePlan |-> config.defaultAppServicePlan,
       clientId |-> config.clientId,
       clientIdPresent |-> truthy(config.clientId),
       clientSecretPresent |-> truthySecret(config.clientSecret) ]

\* the object getConfigSummary returns when the profiles are map and the
\* active profile is active
summaryOf(map, active) ==
  LET config == map[active]
  IN [ activeProfile |-> active,
       availableProfiles |-> getAvailableProfiles(map),
       subscriptionId |-> config.subscriptionId,
       tenantId |-> config.tenantId,
       defaultRegion |-> config.defaultRegion,
       resourceGroupPrefix |-> config.resourceGroupPrefix,
       environment |-> config.environment,
       defaultVmSize |-> config.defaultVmSize,
       defaultAppServicePlan |-> config.defaultAppServicePlan,
       clientIdPresent |-> truthy(config.clientId),
       clientSecretPresent |-> truthySecret(config.clientSecret) ]

getConfigSummary ==
  /\ IF activeProfile \notin DOMAIN profiles
       THEN callEnds("getConfigSummary", << >>, TRUE,
                     << "Profile '", activeProfile, "' not found" >>)
       ELSE callReturns("getConfigSummary", << >>, summaryOf(profiles, activeProfile))
  /\ UNCHANGED << profiles, activeProfile >>

ConfigNext ==
  \/ getConfig
  \/ getConfigSummary
  \/ \E name \in ProfileNames : getProfileConfig(name)
  \/ \E name \in ProfileNames : setActiveProfile(name)
  \/ \E name \in ProfileNames, config \in Configurations : addProfile(name, config)
  \/ \E name \in ProfileNames : removeProfile(name)

ConfigSpec == ConfigInit /\ [][ConfigNext]_vars

(***************************************************************************)
(* The stdio loop of start() (src/dist/server/mcp-server.js): the 'data'   *)
(* handler of stdin, which appends each chunk to the buffer, takes the     *)
(* complete lines from it and answers them one after the other, awaiting   *)
(* handleRequest for each (specification StdioSpec).  A handler runs up to  *)
(* its await when its chunk arrives; chunks that arrive while it is        *)
(* suspended are taken by further handlers.  A text is the sequence of the *)
(* pieces stdin may cut it into.                                           *)
(***************************************************************************)
NewLine == "\n"

\* the lines the client writes
T_list == << "{\"jsonrpc\":\"2.0\",\"id\":1,", "\"method\":\"tools/list\"}" >>
T_servers == << "{\"jsonrpc\":\"2.0\",\"id\":2,\"method\":\"tools/call\",",
                "\"params\":{\"name\":\"azure.getExistingServers\"}}" >>
T_invalid == << "invalid", " json" >>
T_blank == << " " >>

LineTexts == { T_list, T_servers, T_invalid, T_blank }

\* the JSON texts the model parses, with the value of each
JsonTexts ==
  { [ text |-> T_list,
      value |-> [ jsonrpc |-> "2.0", id |-> number(1), method |-> "tools/list" ] ],
    [ text |-> T_servers,
      value |-> [ jsonrpc |-> "2.0", id |-> number(2), method |-> "tools/call",
                  params |-> [ name |-> "azure.getExistingServers" ] ] ] }

\* String.prototype.split with a separator of one piece
RECURSIVE split(_, _)
split(text, sep) ==
  IF \A k \in DOMAIN text : text[k] # sep
    THEN << text >>
    ELSE LET k == CHOOSE n \in DOMAIN text :
                    text[n] = sep /\ \A m \in 1..(n - 1) : text[m] # sep
         IN << SubSeq(text, 1, k - 1) >> \o split(SubSeq(text, k + 1, Len(text)), sep)

WhiteSpace == { " ", "\r", "\t" }

\* String.prototype.trim
RECURSIVE trim(_)
trim(text) ==
  IF text = << >>
    THEN text
    ELSE IF text[1] \in WhiteSpace
      THEN trim(Tail(text))
      ELSE IF text[Len(text)] \in WhiteSpace
        THEN trim(SubSeq(text, 1, Len(text) - 1))
        ELSE text

\* JSON.parse: the value of the text, or the SyntaxError it throws
JSON_parse(text) ==
  IF \E j \in JsonTexts : j.text = trim(text)
    THEN [ ok |-> TRUE, value |-> (CHOOSE j \in JsonTexts : j.text = trim(text)).value ]
    ELSE [ ok |-> FALSE, value |-> toolError(<< "Unexpected token" >>) ]

\* the text of an integer
integerText(n) == IF n < 0 THEN << "-" >> \o decimal(0 - n) ELSE decimal(n)

\* the text of the id member
idText(id) ==
  IF "number" \in DOMAIN id
    THEN integerText(id.number)
    ELSE IF "string" \in DOMAIN id
      THEN << "\"" >> \o id.string \o << "\"" >>
      ELSE << "null" >>

\* JSON.stringify of a response; the text of a result is left out
JSON_stringify(resp) ==
  << "{\"jsonrpc\":\"2.0\",\"id\":" >> \o idText(resp.id)
  \o IF "error" \in DOMAIN resp
       THEN << ",\"error\":{\"code\":" >> \o integerText(resp.error.code)
            \o << ",\"message\":\"" >> \o resp.error.message \o << "\"}}" >>
       ELSE << ",\"result\":", "...", "}" >>

\* the response the catch block of the 'data' handler writes
errorResponse ==
  [ jsonrpc |-> "2.0", id |-> null,
    error |-> [ code |-> -32700, message |-> << "Parse error" >> ] ]

\* variant: what is left after the last newline is thrown away
remainder_Dropped(lines) == << >>

\* buffer = lines.pop() || ''
remainder(lines) == lines[Len(lines)]

\* the lines before the last one: `lines` after lines.pop()
complete(lines) == SubSeq(lines, 1, Len(lines) - 1)

\* the for loop from line k on, up to the first line it awaits
\* handleRequest for: the lines it answered with a parse error on its way
\* and the line it stopped at, Len(lines) + 1 if it came to the end
RECURSIVE forLoop(_, _, _)
forLoop(lines, k, failed) ==
  IF k > Len(lines)
    THEN [ at |-> k, failed |-> failed ]
    ELSE IF trim(lines[k]) = << >>
      THEN forLoop(lines, k + 1, failed)
      ELSE IF JSON_parse(lines[k]).ok
        THEN [ at |-> k, failed |-> failed ]
        ELSE forLoop(lines, k + 1, Append(failed, k))

\* a request was parsed and handleRequest has not run up to its first await
Entering == \E i \in Handlings : request[i] # NoValue /\ toolPc[i] = "idle"

\* a 'data' handler can continue after its await
Ready == \E h \in DOMAIN loops : toolPc[loops[h].handling] = "done"

\* the next handleRequest call
freeHandling == Cardinality({ i \in Handlings : request[i] # NoValue }) + 1

\* the for loop over `lines`, the lines number base + 1 and following of
\* those taken, goes on from line k after `written` was written in answer
\* to line k - 1, in place of the suspended handlers `others`
continue(lines, base, k, written, others) ==
  LET run == forLoop(lines, k, << >>)
      errors == [ n \in DOMAIN run.failed |-> JSON_stringify(errorResponse) ]
  IN /\ stdout' = stdout \o written \o errors
     /\ answered' = answered \o [ n \in DOMAIN written |-> base + k - 1 ]
                             \o [ n \in DOMAIN run.failed |-> base + run.failed[n] ]
     /\ IF run.at <= Len(lines)
          THEN /\ request' = [ request EXCEPT ![freeHandling] = JSON_parse(lines[run.at]).value ]
               /\ loops' = Append(others, [ lines |-> lines, base |-> base, at |-> run.at,
                                            handling |-> freeHandling ])
          ELSE /\ loops' = others
               /\ UNCHANGED request

\* the sizes of the chunk stdin emits next: up to MaxChunk pieces, or all
\* that is pending
ChunkSizes == { n \in 1..Len(pending) : n <= MaxChunk \/ n = Len(pending) }

\* stdin emits 'data' with the next n pieces as the chunk: the handler up
\* to its first await
data(n) ==
  /\ n \in ChunkSizes
  /\ Quiescent
  /\ ~Entering
  /\ ~Ready
  /\ LET chunk == SubSeq(pending, 1, n)
         lines == split(buffer \o chunk, NewLine)
     IN /\ pending' = SubSeq(pending, n + 1, Len(pending))
        /\ received' = received \o chunk
        /\ buffer' = remainder(lines)
        /\ taken' = taken \o complete(lines)
        /\ joined' = IF buffer # << >> /\ Len(lines) > 1
                       THEN joined \cup { Len(taken) + 1 } ELSE joined
        /\ continue(complete(lines), Len(taken), 1, << >>, loops)
  /\ UNCHANGED << now, callVars, probeVars, configVars >>
  /\ UNCHANGED << toolPc, requestStart, stderr, response, frame, returned, calledFor >>

\* the handleRequest call the handler h awaits has returned: the response
\* is written and the for loop goes on
responseWritten(h) ==
  /\ h \in DOMAIN loops
  /\ toolPc[loops[h].handling] = "done"
  /\ Quiescent
  /\ LET l == loops[h]
     IN continue(l.lines, l.base, l.at + 1,
                 << JSON_stringify(response[l.handling]) >>,
                 SubSeq(loops, 1, h - 1) \o SubSeq(loops, h + 1, Len(loops)))
  /\ UNCHANGED << pending, buffer, received, taken, joined >>
  /\ UNCHANGED << now, callVars, probeVars, configVars >>
  /\ UNCHANGED << toolPc, requestStart, stderr, response, frame, returned, calledFor >>

\* the lines of a stream, each with its newline, and what follows the last
\* newline
RECURSIVE Stream(_, _)
Stream(ls, tail) ==
  IF ls = << >> THEN tail ELSE Head(ls) \o << NewLine >> \o Stream(Tail(ls), tail)

\* the sequences of lines the client writes: at most two of them requests
LineSeqs ==
  { ls \in UNION { [ 1..n -> LineTexts ] : n \in 1..MaxLines } :
      Cardinality({ k \in DOMAIN ls : JSON_parse(ls[k]).ok }) <= Cardinality(Handlings) }

\* what the listing of the resources settles with for each of the two
\* requests
StdioWorkloads == { << << Ok(<< >>) >>, << Fail(E_BadRequest) >> >> }

\* the server after start(), with what the client writes to stdin
StdioInit ==
  /\ ManagerInit
  /\ script \in StdioWorkloads
  /\ retryOptions = DEFAULT_RETRY_OPTIONS
  /\ context = [ c \in DOMAIN script |-> << >> ]
  /\ facade = [ c \in DOMAIN script |-> "none" ]
  /\ toolPc = << "idle", "idle" >>
  /\ request = << NoValue, NoValue >>
  /\ requestStart = << 0, 0 >>
  /\ stderr = << >>
  /\ response = << NoValue, NoValue >>
  /\ frame = << NoValue, NoValue >>
  /\ returned = << NoValue, NoValue >>
  /\ calledFor = [ c \in Calls |-> NoValue ]
  /\ ConfigLoaded
  /\ pending \in { Stream(ls, tail) : ls \in LineSeqs, tail \in { << >>, << T_list[1] >> } }
  /\ buffer = << >>
  /\ loops = << >>
  /\ stdout = << >>
  /\ received = << >>
  /\ taken = << >>
  /\ answered = << >>
  /\ joined = { }

StdioNext ==
  \/ \E n \in 1..(MaxLines * 3 + 1) : data(n)
  \/ \E h \in 1..MaxLines : responseWritten(h)
  \/ \E i \in Handlings : handleRequest(i)
  \/ \E i \in Handlings : resourcesListed(i)
  \/ \E c \in Calls : applyRateLimit(c)
  \/ \E c \in Calls : enterLoop(c)
  \/ \E c \in Calls : operationSettles(c)
  \/ TimerDue

\* what the event loop runs when it is ready: the continuations, the
\* timers and the settling of the remote operations
Run ==
  \/ \E h \in 1..MaxLines : responseWritten(h)
  \/ \E i \in Handlings : handleRequest(i)
  \/ \E i \in Handlings : resourcesListed(i)
  \/ \E c \in Calls : applyRateLimit(c)
  \/ \E c \in Calls : enterLoop(c)
  \/ \E c \in Calls : operationSettles(c)
  \/ TimerDue

\* one of them can run
Runnable ==
  \/ Entering
  \/ Ready
  \/ \E i \in Handlings : toolPc[i] = "getAllComputeResources" /\ pc[frame[i].awaited] = "settled"
  \/ \E c \in Calls : pc[c] \in { "admitted", "operation", "rateLimitSleep" }

\* the event loop does not stop while something can run, and a remote
\* operation awaited settles
EventLoopRuns == []<>(~Runnable) \/ []<><< Run >>_vars

StdioSpec == StdioInit /\ [][StdioNext]_vars /\ EventLoopRuns

(***************************************************************************)
(* Vocabulary of the properties                                            *)
(***************************************************************************)
\* two characters are the same letter, whatever their case
SameLetter(x, y) ==
  \/ x = y
  \/ \E i \in 1..Len(UpperCase) : { x, y } = { UpperCase[i], LowerCase[i] }

\* s contains t, compared case-insensitively
ContainsIgnoringCase(s, t) ==
  \E i \in 1..(Len(s) - Len(t) + 1) :
    \A j \in 1..Len(t) : SameLetter(s[i + j - 1], t[j])

\* the message or the name (of an error of that shape) contains one of the
\* signatures
ShapeMatches(shape, signatures) ==
  \E i \in 1..Len(signatures) :
    \/ ContainsIgnoringCase(shape.message, signatures[i])
    \/ ContainsIgnoringCase(shape.name, signatures[i])

ShapeOf(e) == [ name |-> e.name, message |-> e.message ]

\* the shapes of the errors that occur, and the signature lists configured
ErrorShapes ==
  { ShapeOf(e) : e \in { E_TryAgain, E_BadRequest, E_TimedOut, E_Throttled, V_PlainObject } }
    \cup { [ name |-> S_Error, message |-> S_UnknownError ],
            [ name |-> S_Error, message |-> S_AllRetriesFailed ] }

SignatureLists ==
  { MergeOptions(DEFAULT_RETRY_OPTIONS, g).retryableErrors : g \in RetryOptionsArgs }

\* ShapeMatches, tabulated
MatchTable ==
  [ shape \in ErrorShapes |-> [ signatures \in SignatureLists |-> ShapeMatches(shape, signatures) ] ]

\* the message or the name of e contains one of the configured signatures
MatchesSignature(e) == MatchTable[ShapeOf(e)][retryOptions.retryableErrors]

Issued == { c \in Calls : pc[c] # "idle" }
Settled == { c \in Calls : pc[c] = "settled" }
Rejected == { c \in Settled : outcome[c].status = "rejected" }
Fulfilled == { c \in Settled : outcome[c].status = "fulfilled" }

\* the k-th invocation of call c's operation fails
FailsAt(c, k) == ~OutcomeOf(script[c], k).ok

\* the object the k-th invocation of call c's operation throws
ThrownAt(c, k) == thrownObject(c, k, OutcomeOf(script[c], k).value)

\* the k-th invocation fails with an Error that matches a signature
FailsRetryablyAt(c, k) ==
  FailsAt(c, k) /\ ThrownAt(c, k).isError /\ MatchesSignature(ThrownAt(c, k))

\* the k-th invocation fails with an Error that matches no signature
FailsFatallyAt(c, k) ==
  FailsAt(c, k) /\ ThrownAt(c, k).isError /\ ~MatchesSignature(ThrownAt(c, k))

(***************************************************************************)
(* C1: with maxRetries = N >= 0, a call whose operation fails with a       *)
(* retryable error on every attempt invokes it exactly N+1 times, sleeps   *)
(* exactly N backoff delays, and is rejected with the error thrown by the  *)
(* last invocation.                                                        *)
(***************************************************************************)
C1_RetryCountBound ==
  \A c \in Settled :
    LET N == retryOptions.maxRetries
    IN (N >= 0 /\ \A k \in 1..(N + 1) : FailsRetryablyAt(c, k))
         => /\ invoked[c] = N + 1
            /\ Len(delays[c]) = N
            /\ c \in Rejected
            /\ outcome[c].value = ThrownAt(c, N + 1)

C1_Witness ==
  \E c \in Settled :
    /\ retryOptions.maxRetries = 3
    /\ \A k \in 1..4 : FailsRetryablyAt(c, k)
    /\ invoked[c] = 4
    /\ Len(delays[c]) = 3

C3_SuccessShortCircuits ==
  \A c \in Settled :
    \A k \in 0..retryOptions.maxRetries :
      ((\A j \in 1..k : FailsRetryablyAt(c, j)) /\ ~FailsAt(c, k + 1))
        => /\ invoked[c] = k + 1
           /\ Len(delays[c]) = k
           /\ c \in Fulfilled
           /\ outcome[c].value = OutcomeOf(script[c], k + 1).value
           /\ ( k = 3 /\ retryOptions.baseDelay = 1000 /\ retryOptions.maxDelay = 30000
                  => delays[c] = << 1000, 2000, 4000 >> )

C3_Witness ==
  \E c \in Settled :
    /\ retryOptions.maxRetries = 3
    /\ \A j \in 1..3 : FailsRetryablyAt(c, j)
    /\ invoked[c] = 4
    /\ c \in Fulfilled
    /\ outcome[c].value = 42
    /\ delays[c] = << 1000, 2000, 4000 >>

(***************************************************************************)
(* C4: the a-th backoff delay of a call is min(baseDelay * 2^(a-1),        *)
(* maxDelay); the delays of a call never decrease and never exceed         *)
(* maxDelay.                                                               *)
(***************************************************************************)
C4_BackoffDelays ==
  \A c \in Calls :
    \A a \in 1..Len(delays[c]) :
      /\ delays[c][a] = IF retryOptions.baseDelay * 2^(a - 1) <= retryOptions.maxDelay
                          THEN retryOptions.baseDelay * 2^(a - 1)
                          ELSE retryOptions.maxDelay
      /\ delays[c][a] <= retryOptions.maxDelay
      /\ a > 1 => delays[c][a - 1] <= delays[c][a]

C4_Witness ==
  \E c \in Calls :
    /\ Len(delays[c]) = 2
    /\ delays[c][1] < retryOptions.maxDelay
    /\ delays[c][2] = retryOptions.maxDelay
    /\ delays[c][2] < 2 * delays[c][1]

(***************************************************************************)
(* C5 as stated: a rejected call is rejected with the very value its       *)
(* operation threw last.                                                   *)
(***************************************************************************)
C5_RaisesThrownValue ==
  \A c \in Rejected :
    /\ invoked[c] >= 1
    /\ outcome[c].value = ThrownAt(c, invoked[c])

(***************************************************************************)
(* C5 amended: a rejected call is rejected with the very value its         *)
(* operation threw last when that value is an Error; with a new Error      *)
(* 'Unknown error' when the value thrown last is not an Error; and with a  *)
(* new Error 'Operation failed after all retries' when the operation was   *)
(* never invoked.                                                          *)
(***************************************************************************)
C5_RaisesThrownError ==
  \A c \in Rejected :
    IF invoked[c] = 0
      THEN /\ outcome[c].value.ref.by = "executeWithRetry"
           /\ outcome[c].value.message = S_AllRetriesFailed
      ELSE /\ FailsAt(c, invoked[c])
           /\ IF ThrownAt(c, invoked[c]).isError
                THEN outcome[c].value = ThrownAt(c, invoked[c])
                ELSE /\ outcome[c].value.ref.by = "executeWithRetry"
                     /\ outcome[c].value.isError
                     /\ outcome[c].value.name = S_Error
                     /\ outcome[c].value.message = S_UnknownError

C5_Witness ==
  \E c \in Rejected :
    /\ invoked[c] = 2
    /\ ThrownAt(c, 2).isError
    /\ outcome[c].value = ThrownAt(c, 2)

C7_SequentialSpacing ==
  \A c1, c2 \in Calls :
    ( c1 \in settledBefore[c2] /\ invoked[c1] >= 1 /\ invoked[c2] >= 1 )
      => bodyStart[c2] - bodyStart[c1] >= rateLimitDelay

\* the second call found the gate closed, slept, and started exactly
\* rateLimitDelay after the first
C7_Witness ==
  \E c1, c2 \in Calls :
    /\ c1 \in settledBefore[c2]
    /\ invoked[c1] >= 1
    /\ invoked[c2] >= 1
    /\ seenLast[c2] = bodyStart[c1]
    /\ bodyStart[c2] - bodyStart[c1] = rateLimitDelay

(***************************************************************************)
(* C8: a call writes lastRequestTime and increments requestCount exactly   *)
(* once, not before its rate-limit wait is over and before it invokes its  *)
(* operation; the steps of its retry loop (the operation settling, the     *)
(* backoff sleep ending) change neither field.                             *)
(***************************************************************************)
GateOnce ==
  \A c \in Calls :
    /\ pc[c] \in { "idle", "rateLimitSleep" } => gate[c] = 0 /\ invoked[c] = 0
    /\ pc[c] \in { "admitted", "operation", "backoffSleep", "settled" } => gate[c] = 1

RetryLeavesGate ==
  \A c \in Calls :
    ( pc[c] \in { "operation", "backoffSleep" } /\ pc'[c] # pc[c] )
      => /\ requestCount' = requestCount
         /\ lastRequestTime' = lastRequestTime
         /\ gate'[c] = gate[c]

C8_GateOncePerCall == [] GateOnce /\ [][RetryLeavesGate]_vars

\* a call that waited at the gate and then retried has passed the gate once
C8_Witness ==
  \E c \in Settled :
    /\ seenLast[c] > 0
    /\ bodyStart[c] >= seenLast[c] + rateLimitDelay
    /\ invoked[c] >= 2
    /\ gate[c] = 1

(***************************************************************************)
(* C9: when the M calls issued have all settled, requestCount = M and      *)
(* lastRequestTime is the instant at which the call admitted last started  *)
(* its operation.                                                          *)
(***************************************************************************)
C9_StatisticsAccounting ==
  ( Issued # {} /\ Issued = Settled )
    => /\ requestCount = Cardinality(Issued)
       /\ retryOptions.maxRetries >= 0
            => /\ \E c \in Settled : lastRequestTime = bodyStart[c]
               /\ \A c \in Settled : bodyStart[c] <= lastRequestTime

\* three calls, one of them rejected and one of them retried, have settled
C9_Witness ==
  /\ Issued = Settled
  /\ requestCount = 3
  /\ Rejected # {}
  /\ \E c \in Settled : invoked[c] >= 2
  /\ \E c \in Settled : bodyStart[c] < lastRequestTime

(***************************************************************************)
(* C10: the gate spaces a call only from the lastRequestTime that the call *)
(* read: a call starts its operation at least rateLimitDelay after the     *)
(* value it read, a call that read a value less than rateLimitDelay old    *)
(* has not passed the gate before its timer is due, and calls waiting on   *)
(* the same value are due at the same instant.  C10_Witness is the         *)
(* interleaving in which two calls read the same lastRequestTime before    *)
(* either writes it and start their operations less than rateLimitDelay    *)
(* apart.                                                                  *)
(***************************************************************************)
C10_BestEffortSpacing ==
  /\ \A c \in Calls : invoked[c] >= 1 => bodyStart[c] >= seenLast[c] + rateLimitDelay
  /\ \A c, d \in Calls :
       ( pc[c] = "rateLimitSleep" /\ pc[d] = "rateLimitSleep" /\ seenLast[c] = seenLast[d] )
         => wake[c] = wake[d] /\ wake[c] = seenLast[c] + rateLimitDelay

C10_Witness ==
  \E c, d \in Calls :
    /\ c # d
    /\ invoked[c] >= 1
    /\ invoked[d] >= 1
    /\ seenLast[c] = seenLast[d]
    /\ seenLast[c] > 0
    /\ bodyStart[d] >= bodyStart[c]
    /\ bodyStart[d] - bodyStart[c] < rateLimitDelay


(***************************************************************************)
(* C11: a call is suspended at the rate-limit gate only if the time        *)
(* elapsed since the lastRequestTime it read is less than rateLimitDelay,  *)
(* and its timer is then set to exactly rateLimitDelay minus the elapsed   *)
(* time; a call that arrives rateLimitDelay or more after lastRequestTime  *)
(* is never suspended there and starts its operation at the instant it     *)
(* was issued.                                                             *)
(***************************************************************************)
C11_GateWaitsRemainder ==
  \A c \in Issued :
    LET elapsed == startTime[c] - seenLast[c]
    IN /\ pc[c] = "rateLimitSleep"
            => /\ elapsed < rateLimitDelay
               /\ wake[c] - startTime[c] = rateLimitDelay - elapsed
       /\ elapsed >= rateLimitDelay
            => /\ pc[c] # "rateLimitSleep"
               /\ gate[c] = 1
               /\ invoked[c] >= 1 => bodyStart[c] = startTime[c]
       /\ (elapsed < rateLimitDelay /\ invoked[c] >= 1)
            => bodyStart[c] >= startTime[c] + (rateLimitDelay - elapsed)

C11_Witness ==
  \E c, d \in Calls :
    /\ invoked[c] >= 1
    /\ invoked[d] >= 1
    /\ seenLast[c] > 0
    /\ seenLast[d] > 0
    /\ startTime[c] - seenLast[c] \in 1..(rateLimitDelay - 1)
    /\ bodyStart[c] = seenLast[c] + rateLimitDelay
    /\ startTime[d] - seenLast[d] = rateLimitDelay
    /\ bodyStart[d] = startTime[d]

(***************************************************************************)
(* C12 as stated: testConnection starts at most one read and never raises; *)
(* it returns {success: true} if the read succeeds and {success: false,    *)
(* error: the message of the failure} if it fails.                         *)
(***************************************************************************)
C12_ProbeReportsMessage ==
  /\ probeReads <= 1
  /\ probePc = "done"
       => IF probeRead.ok
            THEN probeResult = [ success |-> TRUE ]
            ELSE probeResult = [ success |-> FALSE, error |-> probeRead.value.message ]

(***************************************************************************)
(* C12 amended: testConnection starts exactly one read, never retries it,  *)
(* never passes the rate-limit gate and never raises; it returns           *)
(* {success: true} if the read succeeds, {success: false, error: message}  *)
(* if the read fails with an Error instance, and {success: false, error:   *)
(* 'Unknown connection error'} if it fails with any other value.           *)
(***************************************************************************)
C12_ProbeNeverRaises ==
  /\ probeReads = IF probePc = "idle" THEN 0 ELSE 1
  /\ requestCount = Cardinality({ c \in Calls : gate[c] >= 1 })
  /\ probePc # "done" => probeResult = NoValue
  /\ probePc = "done"
       => IF probeRead.ok
            THEN probeResult = [ success |-> TRUE ]
            ELSE IF probeRead.value.isError
                   THEN probeResult = [ success |-> FALSE, error |-> probeRead.value.message ]
                   ELSE probeResult = [ success |-> FALSE, error |-> S_UnknownConnectionError ]

C12_Witness ==
  /\ probePc = "done"
  /\ ~probeRead.ok
  /\ ~probeRead.value.isError
  /\ probeResult.error = S_UnknownConnectionError
  /\ probeReads = 1
  /\ requestCount = 1

(***************************************************************************)
(* C13: when a call is rejected, the attempts field of its final failure   *)
(* record equals the number of times the call invoked its operation.       *)
(***************************************************************************)
C13_AttemptsReported ==
  \A c \in Rejected :
    LET r == log[c][Len(log[c])]
    IN /\ r.message = "Azure operation failed after all retries"
       /\ r.ctx[K_attempts] = invoked[c]

(***************************************************************************)
(* C14: the retry policy of every manager the constructor builds has       *)
(* baseDelay <= maxDelay and maxRetries >= 0, and no step changes it.      *)
(***************************************************************************)
PolicyValid ==
  /\ retryOptions.baseDelay <= retryOptions.maxDelay
  /\ retryOptions.maxRetries >= 0

C14_PolicyValid == [] PolicyValid /\ [][retryOptions' = retryOptions]_vars

(***************************************************************************)
(* C15: two calls whose operations settle alike attempt by attempt, the    *)
(* one throwing synchronously where the other returns a rejected promise,  *)
(* invoke their operations the same number of times, sleep the same        *)
(* backoff delays and settle alike: fulfilled with the same value, or      *)
(* rejected with the error of the same invocation, of the same kind, name  *)
(* and message.                                                            *)
(***************************************************************************)
\* the outcomes of an operation, whether thrown or rejected
Strip(s) == [ k \in DOMAIN s |-> [ ok |-> s[k].ok, value |-> s[k].value ] ]

\* what a settled call resolved with, up to the identity of the call
Resolution(c) ==
  IF c \in Rejected
    THEN [ status |-> "rejected",
           isError |-> outcome[c].value.isError,
           name |-> outcome[c].value.name,
           message |-> outcome[c].value.message,
           by |-> outcome[c].value.ref.by,
           n |-> outcome[c].value.ref.n ]
    ELSE [ status |-> "fulfilled", value |-> outcome[c].value ]

C15_SyncThrowAsRejection ==
  \A c, d \in Settled :
    Strip(script[c]) = Strip(script[d])
      => /\ invoked[c] = invoked[d]
         /\ delays[c] = delays[d]
         /\ Resolution(c) = Resolution(d)

C15_Witness ==
  \E c, d \in Settled :
    /\ script[c] # script[d]
    /\ Strip(script[c]) = Strip(script[d])
    /\ IsSync(script[c][1])
    /\ invoked[c] = 2
    /\ Len(delays[c]) = 1
    /\ c \in Fulfilled

(***************************************************************************)
(* C16: under every interleaving, the attempts a call makes, the delays it *)
(* sleeps and what it resolves with are those determined by the outcomes   *)
(* of its own operation and the policy alone, and the error it holds or    *)
(* is rejected with is one of its own.                                     *)
(***************************************************************************)
\* what call c catches when the k-th invocation of its own operation fails
OwnCaught(c, k) ==
  IF ThrownAt(c, k).isError
    THEN ThrownAt(c, k)
    ELSE [ isError |-> TRUE, name |-> S_Error, message |-> S_UnknownError,
           ref |-> [ by |-> "executeWithRetry", call |-> c, n |-> k ] ]

\* the k-th invocation is the last one of a call that runs alone
OwnLast(c, k) ==
  \/ ~FailsAt(c, k)
  \/ k = retryOptions.maxRetries + 1
  \/ ~MatchesSignature(OwnCaught(c, k))

\* the number of invocations of a call that runs alone
OwnAttempts(c) ==
  IF retryOptions.maxRetries < 0
    THEN 0
    ELSE CHOOSE k \in 1..(retryOptions.maxRetries + 1) :
           OwnLast(c, k) /\ \A j \in 1..(k - 1) : ~OwnLast(c, j)

C16_CallsIndependent ==
  \A c \in Issued :
    /\ lastError[c] # NoValue => lastError[c].ref.call = c
    /\ invoked[c] <= OwnAttempts(c)
    /\ c \in Settled
         => LET n == OwnAttempts(c)
            IN /\ invoked[c] = n
               /\ delays[c] = [ a \in 1..(n - 1) |->
                     Min(retryOptions.baseDelay * pow2(a - 1), retryOptions.maxDelay) ]
               /\ IF n > 0 /\ ~FailsAt(c, n)
                    THEN c \in Fulfilled /\ outcome[c].value = OutcomeOf(script[c], n).value
                    ELSE /\ c \in Rejected
                         /\ outcome[c].value.ref.call = c
                         /\ n > 0 => outcome[c].value = OwnCaught(c, n)

C16_Witness ==
  \E c, d \in Settled :
    /\ c < d
    /\ c \notin settledBefore[d]
    /\ bodyStart[d] < now
    /\ invoked[c] = 2
    /\ invoked[d] = 1
    /\ c \in Fulfilled
    /\ d \in Rejected

(***************************************************************************)
(* C17 as stated: every attempt, every backoff suspension and the final    *)
(* outcome of a call has a log record, and each of these records carries   *)
(* the operation id of the call, the attempt number and the elapsed time;  *)
(* the records of one call carry the same operation id, those of           *)
(* different calls different ones.                                         *)
(***************************************************************************)
\* the records call c wrote that have message m
RecordsOf(c, m) == { i \in DOMAIN log[c] : log[c][i].message = m }

\* the records of the retry loop of call c
LoopRecords(c) ==
  { i \in DOMAIN log[c] : log[c][i].message # "Request rate limiting status" }

\* every attempt, every backoff and the final outcome of call c has a record
EveryStepLogged(c) ==
  /\ Cardinality(RecordsOf(c, "Executing Azure operation")) = invoked[c]
  /\ Cardinality(RecordsOf(c, "Retrying Azure operation after delay")) = Len(delays[c])
  /\ c \in Fulfilled
       => log[c][Len(log[c])].message = "Azure operation completed successfully"
  /\ c \in Rejected
       => log[c][Len(log[c])].message = "Azure operation failed after all retries"

\* the records of a call carry its operation id, different from the others'
OperationIdCorrelates ==
  /\ \A c \in Calls : \A i \in LoopRecords(c) :
       /\ K_operationId \in DOMAIN log[c][i].ctx
       /\ log[c][i].ctx[K_operationId] = uuidv4(c)
  /\ \A c, d \in Calls : \A i \in LoopRecords(c) : \A j \in LoopRecords(d) :
       c # d => log[c][i].ctx[K_operationId] # log[d][j].ctx[K_operationId]

C17_EveryRecordComplete ==
  /\ \A c \in Calls : EveryStepLogged(c)
  /\ OperationIdCorrelates
  /\ \A c \in Calls : \A i \in LoopRecords(c) :
       /\ K_attempt \in DOMAIN log[c][i].ctx
       /\ \/ K_duration \in DOMAIN log[c][i].ctx
          \/ K_totalDuration \in DOMAIN log[c][i].ctx

(***************************************************************************)
(* C17 amended: every attempt, every backoff suspension and the final      *)
(* outcome of a call has a log record that carries the operation id the    *)
(* call generated, whatever the context of the caller holds; the records   *)
(* of different calls carry different ids.  The record of an attempt       *)
(* starting carries the attempt number; the records of an attempt failing  *)
(* and of the success carry the attempt number and the time elapsed since  *)
(* the call started; the record of a backoff carries the delay and the     *)
(* number of the next attempt; the record of the terminal failure carries  *)
(* the total time elapsed.                                                 *)
(***************************************************************************)
\* record r carries an elapsed time under key k that the call can have seen
ElapsedIn(c, r, k) ==
  /\ k \in DOMAIN r.ctx
  /\ r.ctx[k] >= 0
  /\ r.ctx[k] <= now - startTime[c]

C17_RecordsCorrelate ==
  /\ \A c \in Calls : EveryStepLogged(c)
  /\ OperationIdCorrelates
  /\ \A c \in Calls : \A i \in LoopRecords(c) :
       LET r == log[c][i]
       IN /\ r.message = "Executing Azure operation"
               => /\ K_attempt \in DOMAIN r.ctx
                  /\ r.ctx[K_attempt] = Cardinality({ j \in RecordsOf(c, r.message) : j <= i })
          /\ r.message = "Azure operation failed"
               => /\ K_attempt \in DOMAIN r.ctx
                  /\ r.ctx[K_attempt] = Cardinality({ j \in RecordsOf(c, r.message) : j <= i })
                  /\ ElapsedIn(c, r, K_duration)
          /\ r.message = "Azure operation completed successfully"
               => /\ K_attempt \in DOMAIN r.ctx
                  /\ r.ctx[K_attempt] = invoked[c]
                  /\ ElapsedIn(c, r, K_duration)
          /\ r.message = "Retrying Azure operation after delay"
               => /\ K_delay \in DOMAIN r.ctx
                  /\ K_nextAttempt \in DOMAIN r.ctx
                  /\ r.ctx[K_nextAttempt] =
                       Cardinality({ j \in RecordsOf(c, r.message) : j <= i }) + 1
          /\ r.message = "Azure operation failed after all retries"
               => ElapsedIn(c, r, K_totalDuration)

C17_Witness ==
  \E c, d \in Settled :
    /\ c # d
    /\ K_operationId \in DOMAIN context[c]
    /\ c \in Fulfilled
    /\ invoked[c] = 2
    /\ Len(log[c]) = 5
    /\ d \in Rejected
    /\ Len(log[d]) = 3

(***************************************************************************)
(* C18: a call made through a facade method passes the rate-limit gate     *)
(* exactly once, so that requestCount is the number of facade calls        *)
(* admitted, and the promise of the facade method settles as the promise   *)
(* of executeWithRetry does: when the executor rejects, the facade method  *)
(* rejects with the very same error.                                       *)
(***************************************************************************)
C18_FacadeAddsNothing ==
  /\ \A c \in Calls : gate[c] <= 1
  /\ requestCount = Cardinality({ c \in Calls : gate[c] = 1 })
  /\ \A c \in Calls :
       IF c \in Settled
         THEN /\ gate[c] = 1
              /\ result[c].status = outcome[c].status
              /\ c \in Rejected => result[c].value = outcome[c].value
         ELSE result[c] = NoValue

C18_Witness ==
  \E c \in Rejected :
    /\ facade[c] = "createBlobServiceClient"
    /\ invoked[c] = 4
    /\ result[c].value = ThrownAt(c, 4)
    /\ requestCount = 1

(***************************************************************************)
(* C19: in every record written for a logical call or for the connectivity *)
(* probe, the value of every context field whose key contains password,    *)
(* secret, token, credential or auth (in any case) is redacted.            *)
(***************************************************************************)
SensitiveWords ==
  { <<"p","a","s","s","w","o","r","d">>, <<"s","e","c","r","e","t">>,
    <<"t","o","k","e","n">>, <<"c","r","e","d","e","n","t","i","a","l">>,
    <<"a","u","t","h">> }

LogKeys ==
  { K_operationId, K_attempt, K_maxRetries, K_duration, K_error, K_delay, K_nextAttempt,
    K_totalDuration, K_attempts, K_finalError, K_operation, K_resourceId, K_totalRequests,
    K_rateLimitDelay, K_userId, K_password, K_authToken }

\* the key looks sensitive, tabulated
SensitiveTable ==
  [ k \in LogKeys |-> \E w \in SensitiveWords : ContainsIgnoringCase(k, w) ]

Redacted(r) ==
  \A k \in DOMAIN r.ctx : SensitiveTable[k] => r.ctx[k] = "[REDACTED]"

C19_SensitiveRedacted ==
  /\ \A c \in Calls : \A i \in DOMAIN log[c] : Redacted(log[c][i])
  /\ \A i \in DOMAIN probeLog : Redacted(probeLog[i])


(***************************************************************************)
(* C20: no line the server, the tool or the manager writes while a         *)
(* tools/call request is handled, and no error message of the response,    *)
(* contains the adminPassword the request carries.                         *)
(***************************************************************************)
\* the credential values a request carries
SecretsOf(req) ==
  IF "params" \in DOMAIN req /\ "arguments" \in DOMAIN req.params
       /\ "adminPassword" \in DOMAIN req.params.arguments
    THEN { req.params.arguments.adminPassword }
    ELSE {}

\* the line e was written with the params of the request in it, the
\* password among them
WritesSecret(e) ==
  /\ e.text \in { "Calling tool", "Starting operation" }
  /\ "data" \in DOMAIN e
  /\ "adminPassword" \in DOMAIN e.data.params
  /\ e.data.params.adminPassword \in SecretsOf(request[1])

\* the message holds one of the strings
MessageHolds(message, strings) == \E i \in DOMAIN message : message[i] \in strings

C20_NoSecretWritten ==
  /\ \A i \in DOMAIN stderr : ~WritesSecret(stderr[i])
  /\ \A i \in DOMAIN stderr :
       stderr[i].text \in { "Tool execution failed", "Failed operation" }
         => ~MessageHolds(stderr[i].data.message, SecretsOf(request[1]))
  /\ (response[1] # NoValue /\ "error" \in DOMAIN response[1])
       => ~MessageHolds(response[1].error.message, SecretsOf(request[1]))


(***************************************************************************)
(* Vocabulary of the properties of the tools                               *)
(***************************************************************************)
\* handleRequest call i ran the handler of tool t
Ran(i, t) == frame[i] # NoValue /\ frame[i].tool = t

\* handleRequest call i ran the handler of tool t, which has returned
Returned(i, t) == Ran(i, t) /\ returned[i] # NoValue

\* the tool result the response of handleRequest call i shows
Shown(i) == response[i].result.content[1].text

(***************************************************************************)
(* C21: the result deployMinimalInstance returns, and the response that   *)
(* shows it, never holds the admin password of the machine, whether the    *)
(* caller supplied it or generatePassword() made it: on success the        *)
(* password of the credentials is the literal "[REDACTED]" and no other    *)
(* field holds the password, on failure no field of the placeholder does.  *)
(***************************************************************************)
\* the admin passwords in play in handleRequest call i
PasswordsOf(i) ==
  (IF "adminPassword" \in DOMAIN frame[i].params
     THEN { frame[i].params.adminPassword } ELSE {})
  \cup
  (IF "vmConfig" \in DOMAIN frame[i]
     THEN { frame[i].vmConfig.osProfile.adminPassword } ELSE {})

\* the details d of a result of deployMinimalInstance hold none of the
\* strings
HoldsNoneOf(success, d, strings) ==
  /\ d.region \notin strings
  /\ d.status \notin strings
  /\ IF success
       THEN /\ \A k \in DOMAIN d.name : d.name[k] \notin strings
            /\ \A k \in DOMAIN d.resourceGroup : d.resourceGroup[k] \notin strings
            /\ "credentials" \in DOMAIN d.accessInfo =>
                 /\ d.accessInfo.credentials.username \notin strings
                 /\ d.accessInfo.credentials.password \notin strings
       ELSE /\ d.name \notin strings
            /\ d.resourceGroup \notin strings

C21_PasswordRedacted ==
  \A i \in Handlings :
    Returned(i, "azure.deployMinimalInstance") =>
      /\ HoldsNoneOf(returned[i].success, returned[i].details, PasswordsOf(i))
      /\ (returned[i].success /\ frame[i].params.instanceType = "vm") =>
           returned[i].details.accessInfo.credentials.password = "[REDACTED]"
      /\ Shown(i).details = returned[i].details
      /\ "error" \notin DOMAIN response[i]

\* a machine was deployed with a generated password
C21_Witness ==
  /\ Returned(1, "azure.deployMinimalInstance")
  /\ returned[1].success
  /\ "adminPassword" \notin DOMAIN frame[1].params
  /\ frame[1].vmConfig.osProfile.adminPassword \in GeneratedPasswords


(***************************************************************************)
(* C22: a tool operation called with a parameter object never raises to    *)
(* its caller: it returns a response with success, its operation name and  *)
(* a timestamp, which callTool shows as a result.  success is false        *)
(* exactly when the parameters are invalid or a facade call that the       *)
(* operation does not guard on its own was rejected; the reads of the      *)
(* listed resources in getExistingServers are guarded one by one.          *)
(***************************************************************************)
\* the facade calls made by the tool handler of handleRequest call i
CallsOf(i) == { c \in Calls : calledFor[c] # NoValue /\ calledFor[c].request = i }

\* the facade calls of handleRequest call i that were rejected
RejectedOf(i) == { c \in CallsOf(i) : result[c] # NoValue /\ result[c].status = "rejected" }

\* the handlers catch the failure of these facade methods one resource at a
\* time
ReadsOfResources == { "getVirtualMachine", "getVirtualMachineInstanceView", "getAppService" }

\* the parameters the handler of handleRequest call i was given are invalid
InvalidParams(i) ==
  CASE frame[i].tool = "azure.deployMinimalInstance" ->
         validateDeployMinimalInstanceParams(frame[i].params) # << >>
    [] frame[i].tool = "azure.deployBackend" ->
         validateDeployBackendParams(frame[i].params) # << >>
    [] frame[i].tool = "azure.deployFrontend" ->
         validateDeployFrontendParams(frame[i].params) # << >>
    [] OTHER -> FALSE

\* a handler that has run to its end has returned a structured response,
\* which the JSON-RPC response shows
ReturnsStructured(i) ==
  (frame[i] # NoValue /\ toolPc[i] = "done") =>
    /\ returned[i] # NoValue
    /\ { "success", "operation", "timestamp", "details" } \subseteq DOMAIN returned[i]
    /\ returned[i].operation = frame[i].tool
    /\ returned[i].timestamp \in requestStart[i]..now
    /\ "result" \in DOMAIN response[i]
    /\ Shown(i).operation = frame[i].tool
    /\ Shown(i).status = IF returned[i].success THEN "SUCCESS" ELSE "FAILED"

ListingOf(i) == frame[i].resources

\* the facade call that fetched the listing for handleRequest call i was
\* fulfilled
Listed(i) ==
  \E c \in CallsOf(i) :
    /\ facade[c] = "getAllComputeResources"
    /\ result[c] # NoValue
    /\ result[c].status = "fulfilled"

\* resource r of the listing of handleRequest call i is a virtual machine or
\* an App Service, its id can be parsed and none of its reads was rejected
Kept(i, r) ==
  /\ r.type \in { T_VirtualMachine, T_Site }
  /\ extractResourceGroupFromId(r.id) # NoValue
  /\ \A c \in RejectedOf(i) : calledFor[c].resource # r.name

\* the resources of the listing that are kept, in order
KeptOf(i) ==
  LET IsKept(r) == Kept(i, r)
  IN SelectSeq(ListingOf(i), IsKept)

C23_OnlyFailedResourceDropped ==
  \A i \in Handlings :
    (Returned(i, "azure.getExistingServers") /\ Listed(i)) =>
      /\ returned[i].success
      /\ Len(returned[i].details) = Len(KeptOf(i))
      /\ \A k \in DOMAIN returned[i].details :
           /\ returned[i].details[k].id = KeptOf(i)[k].id
           /\ returned[i].details[k].name = KeptOf(i)[k].name
      /\ Shown(i).details = returned[i].details

\* a listing of two resources, of which the read of one was rejected and
\* the other is returned
C23_Witness ==
  /\ Returned(1, "azure.getExistingServers")
  /\ Listed(1)
  /\ Len(ListingOf(1)) = 2
  /\ \E c \in RejectedOf(1) : facade[c] \in ReadsOfResources
  /\ Len(returned[1].details) = 1


(***************************************************************************)
(* C24: a deployment tool called with dryRun = true issues no call that    *)
(* creates a resource.                                                     *)
(***************************************************************************)
\* the facade methods that create a resource
CreatingMethods ==
  { "createResourceGroup", "createVirtualMachine", "createAppServicePlan", "createAppService",
    "createStorageAccount" }

\* the handler of handleRequest call i was given dryRun = true
DryRun(i) ==
  /\ frame[i] # NoValue
  /\ "params" \in DOMAIN frame[i]
  /\ "dryRun" \in DOMAIN frame[i].params
  /\ frame[i].params.dryRun

C24_DryRunCreatesNothing ==
  \A i \in Handlings :
    DryRun(i) => \A c \in CallsOf(i) : facade[c] \notin CreatingMethods

(***************************************************************************)
(* C25: every handleRequest call that has finished returned a response     *)
(* with jsonrpc "2.0", the id of its own request (null and string ids      *)
(* included) and exactly one of result and error, the one its own request  *)
(* calls for; and a response, once returned, is not altered by the         *)
(* handling of another request.                                            *)
(***************************************************************************)
\* the methods handleRequest serves
KnownMethods == { "tools/list", "tools/call", "initialize", "initialized" }

\* the request is a tools/call that names a tool
NamesTool(req) == ToolOf(req) # "none"

\* the request names a tool that is not registered
UnknownTool(req) == NamesTool(req) /\ ToolOf(req) \notin RegisteredTools

\* the arguments of a request that names a tool
ArgumentsOf(req) ==
  IF "arguments" \in DOMAIN req.params THEN req.params.arguments ELSE << >>

\* the request names a registered tool and omits one of its required
\* parameters
MissingParameter(req) ==
  /\ NamesTool(req)
  /\ ToolOf(req) \in RegisteredTools
  /\ \E k \in DOMAIN RequiredParams[ToolOf(req)] :
       RequiredParams[ToolOf(req)][k] \notin DOMAIN ArgumentsOf(req)

\* the request is one that is answered with an error
CallsForError(req) ==
  \/ req.jsonrpc # "2.0"
  \/ "method" \notin DOMAIN req
  \/ req.method \notin KnownMethods
  \/ req.method = "tools/call" /\ ~NamesTool(req)
  \/ UnknownTool(req)
  \/ MissingParameter(req)

\* the response of a finished handleRequest call is well formed and is the
\* one of its own request
OwnResponse(i) ==
  toolPc[i] = "done" =>
    /\ response[i] # NoValue
    /\ response[i].jsonrpc = "2.0"
    /\ response[i].id = request[i].id
    /\ ("result" \in DOMAIN response[i]) # ("error" \in DOMAIN response[i])
    /\ DOMAIN response[i] \subseteq { "jsonrpc", "id", "result", "error" }
    /\ ("error" \in DOMAIN response[i]) <=> CallsForError(request[i])
    /\ (NamesTool(request[i]) /\ "result" \in DOMAIN response[i])
         => Shown(i).tool = ToolOf(request[i])
    /\ (~CallsForError(request[i]) /\ request[i].method = "tools/list")
         => response[i].result = [ tools |-> RegisteredTools ]

\* a response that was returned stays as it is
ResponseKept ==
  \A i \in Handlings : response[i] # NoValue => response'[i] = response[i]

C25_OwnResponse ==
  /\ [] (\A i \in Handlings : OwnResponse(i))
  /\ [][ResponseKept]_vars

\* the second request, whose id is null, was served while the first one,
\* received before it, awaited createVirtualMachine
C25_Witness ==
  /\ toolPc[1] = "createVirtualMachine"
  /\ toolPc[2] = "done"
  /\ requestStart[2] > requestStart[1]
  /\ request[2].id = null
  /\ response[2].id = null
  /\ "error" \in DOMAIN response[2]

(***************************************************************************)
(* C26: a tools/call request that names an unknown tool, or omits a        *)
(* required parameter of the tool's input schema, is answered with a       *)
(* JSON-RPC error; no tool handler runs for it and no facade method of the *)
(* manager is called for it.                                               *)
(***************************************************************************)
C26_RejectedBeforeHandler ==
  \A i \in Handlings :
    (UnknownTool(request[i]) \/ MissingParameter(request[i])) =>
      /\ frame[i] = NoValue
      /\ returned[i] = NoValue
      /\ CallsOf(i) = {}
      /\ toolPc[i] \in { "idle", "done" }
      /\ toolPc[i] = "done" => "error" \in DOMAIN response[i]

\* a deployment without its region was answered
C26_Witness ==
  /\ toolPc[1] = "done"
  /\ ToolOf(request[1]) = "azure.deployMinimalInstance"
  /\ "region" \notin DOMAIN ArgumentsOf(request[1])
  /\ "error" \in DOMAIN response[1]

(***************************************************************************)
(* C27: the code of an error response is the documented one: -32601 for an *)
(* unknown method, -32602 for invalid parameters, -32600 for an invalid    *)
(* JSON-RPC envelope, -32000 for a tool execution error.                   *)
(***************************************************************************)
\* the code the documentation gives for the error the request calls for
DocumentedCode(req) ==
  IF req.jsonrpc # "2.0" \/ "method" \notin DOMAIN req
    THEN -32600
    ELSE IF req.method \notin KnownMethods
      THEN -32601
      ELSE IF ~NamesTool(req) \/ MissingParameter(req)
        THEN -32602
        ELSE -32000

C27_DocumentedCodes ==
  \A i \in Handlings :
    (toolPc[i] = "done" /\ "error" \in DOMAIN response[i])
      => response[i].error.code = DocumentedCode(request[i])

(***************************************************************************)
(* C28: a tool call whose operation fails is answered with a JSON-RPC      *)
(* response that has an error member, not a result.                        *)
(***************************************************************************)
C28_FailedOperationIsError ==
  \A i \in Handlings :
    (toolPc[i] = "done" /\ frame[i] # NoValue /\ returned[i] # NoValue /\ ~returned[i].success)
      => /\ "error" \in DOMAIN response[i]
         /\ "result" \notin DOMAIN response[i]


(***************************************************************************)
(* C29: whatever calls were made to the configuration manager, those that  *)
(* threw included, the profile "default" exists and the active profile     *)
(* names an existing profile, so getConfig() does not throw; and removing  *)
(* the active profile makes "default" the active one.                      *)
(***************************************************************************)
\* this step is a call to the configuration manager
ConfigCallMade == configCalls' = configCalls + 1

\* the profile that was active is removed in this step
ActiveRemoved ==
  /\ ConfigCallMade
  /\ configCall'.op = "removeProfile"
  /\ ~configCall'.threw
  /\ configCall'.args[1] = activeProfile

ActiveProfileExists ==
  /\ "default" \in DOMAIN profiles
  /\ activeProfile \in DOMAIN profiles
  /\ (configCall # NoValue /\ configCall.op = "getConfig") => ~configCall.threw

C29_ActiveProfileExists ==
  /\ [] ActiveProfileExists
  /\ [][ActiveRemoved => (activeProfile' = "default" /\ activeProfile \notin DOMAIN profiles')]_vars

\* the profile that was active, which is not the default one, was removed
C29_Witness ==
  /\ configCall # NoValue
  /\ configCall.op = "removeProfile"
  /\ ~configCall.threw
  /\ configCall.args[1] = configCall.before.activeProfile
  /\ configCall.args[1] \in DOMAIN configCall.before.profiles
  /\ activeProfile = "default"

(***************************************************************************)
(* C30: a call to the configuration manager that throws changes neither    *)
(* the profiles nor the active profile; and setActiveProfile and           *)
(* getProfileConfig with a name that is not a profile, addProfile with a   *)
(* configuration that is not valid and removeProfile("default") throw.     *)
(***************************************************************************)
\* the last call was made with arguments for which the operation fails
FailingCall ==
  LET args == configCall.args
      before == configCall.before
  IN CASE configCall.op \in { "setActiveProfile", "getProfileConfig" } ->
            args[1] \notin DOMAIN before.profiles
       [] configCall.op = "addProfile" ->
            args[2] \in { C_notAGuid, C_version1, C_noSecret, C_emptySecret, C_noRegion }
       [] configCall.op = "removeProfile" -> args[1] = "default"
       [] OTHER -> FALSE

FailingCallThrows ==
  configCall # NoValue =>
    /\ FailingCall => configCall.threw
    /\ configCall.threw =>
         (profiles = configCall.before.profiles /\ activeProfile = configCall.before.activeProfile)

ThrowChangesNothing ==
  (ConfigCallMade /\ configCall'.threw)
    => (profiles' = profiles /\ activeProfile' = activeProfile)

C30_FailureChangesNothing == [] FailingCallThrows /\ [][ThrowChangesNothing]_vars

\* addProfile was called with a configuration that is not valid, under the
\* name of a profile that exists, and threw
C30_Witness ==
  /\ configCall # NoValue
  /\ configCall.op = "addProfile"
  /\ configCall.threw
  /\ configCall.args[1] \in DOMAIN profiles
  /\ configCall.args[1] # "default"

(***************************************************************************)
(* C31: the object getConfigSummary returns has no clientId and no         *)
(* clientSecret member, reports their presence as booleans, and is the     *)
(* same object whatever the client ids and client secrets of the profiles  *)
(* are: replacing them in any profile by other values leaves the summary   *)
(* as it is.                                                               *)
(***************************************************************************)
\* client ids and client secrets a profile could hold instead of its own
OtherClientIds == { G_Client, G_Other }
OtherClientSecrets == { "env-client-secret", "another-secret" }

\* the profiles with the client id and the client secret of each replaced
Disguises(map) ==
  { [ name \in DOMAIN map |->
        [ map[name] EXCEPT !.clientId = ids[name], !.clientSecret = secrets[name] ] ] :
      ids \in [ DOMAIN map -> OtherClientIds ],
      secrets \in [ DOMAIN map -> OtherClientSecrets ] }

\* the last call to the configuration manager was getConfigSummary
Summarised ==
  /\ configCall # NoValue
  /\ configCall.op = "getConfigSummary"
  /\ ~configCall.threw

C31_SummaryHidesCredentials ==
  Summarised =>
    /\ DOMAIN configCall.returned \cap { "clientId", "clientSecret" } = { }
    /\ configCall.returned.clientIdPresent \in BOOLEAN
    /\ configCall.returned.clientSecretPresent \in BOOLEAN
    /\ \A other \in Disguises(configCall.before.profiles) :
         summaryOf(other, configCall.before.activeProfile) = configCall.returned

\* the summary of a profile other than the default one was returned, with
\* profiles whose client secrets differ
C31_Witness ==
  /\ Summarised
  /\ activeProfile # "default"
  /\ profiles[activeProfile].clientSecret # profiles["default"].clientSecret
  /\ \E other \in Disguises(profiles) :
       other[activeProfile].clientId # profiles[activeProfile].clientId

(***************************************************************************)
(* C32: every invocation of the operation of a create call, the retries    *)
(* included, passes on the resource names the facade method was called     *)
(* with; these are the names deployVirtualMachine or deployAppService made *)
(* before the call, they do not change afterwards, and all the create      *)
(* calls of one deployment name the same resource group.                   *)
(***************************************************************************)
\* the create calls made for handleRequest call i
CreatesOf(i) == { c \in CallsOf(i) : facade[c] \in CreatingMethods }

\* the name the handler made for the resource the facade method creates
NameMadeFor(i, method) ==
  CASE method = "createResourceGroup" -> frame[i].resourceGroupName
    [] method = "createVirtualMachine" -> frame[i].vmName
    [] method = "createAppServicePlan" -> frame[i].planName
    [] method = "createAppService" -> frame[i].appName

SameTargetOnRetry ==
  \A i \in Handlings : \A c \in CreatesOf(i) :
    /\ Len(targets[c]) = invoked[c]
    /\ \A k \in 1..Len(targets[c]) : targets[c][k] = calledFor[c].target
    /\ calledFor[c].target[1] = frame[i].resourceGroupName
    /\ calledFor[c].target[Len(calledFor[c].target)] = NameMadeFor(i, facade[c])
    /\ \A d \in CreatesOf(i) : calledFor[d].target[1] = calledFor[c].target[1]

NamesKept ==
  \A c \in Calls :
    /\ calledFor[c] # NoValue => calledFor'[c] = calledFor[c]
    /\ \A k \in 1..Len(targets[c]) : targets'[c][k] = targets[c][k]

C32_SameTargetOnRetry == [] SameTargetOnRetry /\ [][NamesKept]_vars

\* a create call invoked its operation a second time, at an instant at
\* which the name of the resource group would be made differently
C32_Witness ==
  \E i \in Handlings : \E c \in CreatesOf(i) :
    /\ invoked[c] >= 2
    /\ targets[c][2] = targets[c][1]
    /\ "resourceGroupName" \notin DOMAIN frame[i].params
    /\ resourceGroupNameOf(frame[i].params) # frame[i].resourceGroupName

(***************************************************************************)
(* C33: a call that was issued settles, provided every invocation of its   *)
(* operation settles; with maxRetries = N >= 0 it has then invoked the     *)
(* operation at most N+1 times and slept at most N backoff delays; and a   *)
(* call enters the rate-limit wait only when it is issued, so at most      *)
(* once.                                                                   *)
(***************************************************************************)
WorkBounded ==
  \A c \in Calls :
    LET N == retryOptions.maxRetries
    IN /\ N >= 0 => (invoked[c] <= N + 1 /\ Len(delays[c]) <= N)
       /\ N < 0 => (invoked[c] = 0 /\ delays[c] = << >>)
       /\ attempt[c] <= invoked[c] + 1

OneRateLimitWait ==
  \A c \in Calls : (pc'[c] = "rateLimitSleep" /\ pc[c] # "rateLimitSleep") => pc[c] = "idle"

C33_EveryCallTerminates ==
  /\ [] WorkBounded
  /\ [][OneRateLimitWait]_vars
  /\ \A c \in Calls : (pc[c] # "idle") ~> (pc[c] = "settled")

\* a call that waited at the rate-limit gate and used up its retries has
\* settled
C33_Witness ==
  \E c \in Calls :
    /\ pc[c] = "settled"
    /\ invoked[c] = retryOptions.maxRetries + 1
    /\ Len(delays[c]) = retryOptions.maxRetries
    /\ Len(delays[c]) > 0
    /\ bodyStart[c] > startTime[c]

(***************************************************************************)
(* C34: the facade calls of deployMinimalInstance are, in the order of     *)
(* issue, createResourceGroup and createVirtualMachine, or                 *)
(* createResourceGroup, createAppServicePlan and createAppService; each    *)
(* but the first is issued after the one before it was fulfilled; once one *)
(* is rejected no further call is issued, none of the calls made deletes   *)
(* anything, and the operation returns success = false.                    *)
(***************************************************************************)
\* handleRequest call i runs deployMinimalInstance, which passed validation
Deploys(i) ==
  /\ frame[i] # NoValue
  /\ frame[i].tool = "azure.deployMinimalInstance"
  /\ "resourceGroupName" \in DOMAIN frame[i]

\* the create steps of the deployment, in order
StepsOf(i) ==
  IF frame[i].params.instanceType = "vm"
    THEN << "createResourceGroup", "createVirtualMachine" >>
    ELSE << "createResourceGroup", "createAppServicePlan", "createAppService" >>

\* the position of call c among the facade calls made for handleRequest call i
StepOf(i, c) == Cardinality({ d \in CallsOf(i) : d <= c })

\* a step of the deployment was rejected
StepFailed(i) == \E c \in CallsOf(i) : result[c] # NoValue /\ result[c].status = "rejected"

StepsInOrder ==
  \A i \in Handlings : Deploys(i) =>
    /\ \A c \in CallsOf(i) :
         /\ StepOf(i, c) <= Len(StepsOf(i))
         /\ facade[c] = StepsOf(i)[StepOf(i, c)]
         /\ \A d \in CallsOf(i) :
              d < c => (d \in settledBefore[c] /\ result[d].status = "fulfilled")
    /\ (toolPc[i] = "done" /\ StepFailed(i))
         => (~returned[i].success /\ returned[i].details.status = "Failed")
    /\ (toolPc[i] = "done" /\ returned[i].success)
         => (Cardinality(CallsOf(i)) = Len(StepsOf(i))
             /\ \A c \in CallsOf(i) : result[c].status = "fulfilled")

NothingAfterFailure ==
  \A i \in Handlings :
    (Deploys(i) /\ StepFailed(i)) => (CallsOf(i))' = CallsOf(i)

C34_StepsInOrder == [] StepsInOrder /\ [][NothingAfterFailure]_vars

\* the deployment of an App Service created the resource group, failed to
\* create the plan, and returned
C34_Witness ==
  /\ Deploys(1)
  /\ frame[1].params.instanceType = "appservice"
  /\ toolPc[1] = "done"
  /\ CallsOf(1) = { 1, 2 }
  /\ result[1].status = "fulfilled"
  /\ result[2].status = "rejected"
  /\ ~returned[1].success

\* the fields each deployment operation requires
RequiredOf(t) ==
  CASE t = "azure.deployMinimalInstance" -> { "instanceType", "region", "namePrefix" }
    [] t = "azure.deployBackend" -> { "instanceId", "deploymentPackage", "runtime" }
    [] t = "azure.deployFrontend" -> { "instanceId", "buildDirectory" }
    [] OTHER -> { }

\* a requirement of the operation that the parameters do not meet: a
\* required field is missing or empty, or its value is not an allowed one
Unmet(t, params) ==
  \/ \E k \in RequiredOf(t) :
       \/ k \notin DOMAIN params
       \/ IF k = "namePrefix" THEN Len(params[k]) = 0 ELSE params[k] = ""
  \/ /\ t = "azure.deployMinimalInstance"
     /\ \/ params.instanceType \notin { "vm", "appservice" }
        \/ Len(params.namePrefix) > 20
  \/ /\ t = "azure.deployBackend"
     /\ params.runtime \notin { "node", "python", "dotnet", "java", "php" }

\* the validator of the operation throws for the parameters
Throws(t, params) ==
  CASE t = "azure.deployMinimalInstance" -> validateDeployMinimalInstanceParams(params) # << >>
    [] t = "azure.deployBackend" -> validateDeployBackendParams(params) # << >>
    [] t = "azure.deployFrontend" -> validateDeployFrontendParams(params) # << >>
    [] OTHER -> FALSE

\* the parameters without field k
Without(params, k) == [ j \in DOMAIN params \ { k } |-> params[j] ]

\* a deployment operation entered with parameters that do not meet its
\* requirements has returned success = false and made no call of the client;
\* the validator also throws when a required field is taken away
ValidationFailureReturns ==
  \A i \in Handlings :
    \A t \in { "azure.deployMinimalInstance", "azure.deployBackend", "azure.deployFrontend" } :
      Ran(i, t) =>
        /\ \A k \in RequiredOf(t) : Throws(t, Without(frame[i].params, k))
        /\ Unmet(t, frame[i].params) =>
             /\ toolPc[i] = "done"
             /\ returned[i] # NoValue
             /\ ~returned[i].success
             /\ CallsOf(i) = { }

\* the step in which an operation is entered and fails validation leaves
\* the request counter, the time of the last request and every facade call
\* unchanged
ValidationFailureIsFree ==
  \A i \in Handlings :
    ( /\ frame[i] = NoValue /\ frame'[i] # NoValue
      /\ Unmet(frame'[i].tool, frame'[i].params) )
    => /\ requestCount' = requestCount
       /\ lastRequestTime' = lastRequestTime
       /\ pc' = pc
       /\ invoked' = invoked
       /\ calledFor' = calledFor

\* C35: when parameter validation fails in deployMinimalInstance,
\* deployBackend or deployFrontend (a required field missing or invalid),
\* the operation returns success = false without issuing any call to the
\* Azure client: requestCount is unchanged and nothing is created
C35_ValidationFailureIsFree == [] ValidationFailureReturns /\ [][ValidationFailureIsFree]_vars

\* deployMinimalInstance was entered with a name prefix longer than 20
\* characters and returned success = false after the client had counted the
\* requests of the other handling
C35_Witness ==
  /\ Ran(2, "azure.deployMinimalInstance")
  /\ Len(frame[2].params.namePrefix) > 20
  /\ returned[2] # NoValue
  /\ ~returned[2].success
  /\ CallsOf(2) = { }
  /\ CallsOf(1) # { }
  /\ requestCount > 0

\* a step of testConnection: its call, or the settling of its read
ProbeStep == probePc' # probePc

\* a step of testConnection leaves the request counter, the time of the
\* last request and the position, the attempts and the waits of every call of
\* executeWithRetry as they were, and takes no time
ProbeOutsideGate ==
  ProbeStep =>
    /\ requestCount' = requestCount
    /\ lastRequestTime' = lastRequestTime
    /\ gate' = gate
    /\ pc' = pc
    /\ wake' = wake
    /\ attempt' = attempt
    /\ invoked' = invoked
    /\ delays' = delays
    /\ now' = now

\* the probe reads once, and is settled by the one step that follows its
\* call: it neither sleeps nor reads again
ProbeReadsOnce ==
  /\ probeReads <= 1
  /\ probePc = "done" => probeResult.success = probeRead.ok

\* C36: testConnection does not pass through the rate-limit gate or the
\* retry loop: it leaves requestCount and lastRequestTime unchanged whether
\* it succeeds or fails
C36_ProbeOutsideGate == [] ProbeReadsOnce /\ [][ProbeOutsideGate]_vars

\* the probe has read once and failed on a retryable error, while the one
\* request the manager counted passed the gate less than rateLimitDelay ago
C36_Witness ==
  /\ probePc = "done"
  /\ ~probeResult.success
  /\ probeRead.value = E_TryAgain
  /\ probeReads = 1
  /\ requestCount = 1
  /\ now - lastRequestTime < rateLimitDelay

\* the places of the newlines in a text
NewLinesIn(text) == { k \in DOMAIN text : text[k] = NewLine }

\* the line the newline at place k of the text ends
LineEndedAt(text, k) ==
  LET before == { m \in NewLinesIn(text) : m < k }
      start == IF before = { } THEN 1 ELSE (CHOOSE m \in before : \A o \in before : o <= m) + 1
  IN SubSeq(text, start, k - 1)

\* the complete line number j of what was read from stdin
LineReceived(j) ==
  LET k == CHOOSE m \in NewLinesIn(received) :
             Cardinality({ o \in NewLinesIn(received) : o <= m }) = j
  IN LineEndedAt(received, k)

LinesReceived == Cardinality(NewLinesIn(received))

IsBlank(line) == \A k \in DOMAIN line : line[k] \in WhiteSpace

\* the lines of stdout that answer line j
AnswersTo(j) == { n \in DOMAIN answered : answered[n] = j }

\* JSON.stringify of the parse-error response
ParseErrorLine ==
  << "{\"jsonrpc\":\"2.0\",\"id\":", "null", ",\"error\":{\"code\":", "-", "3", "2", "7", "0", "0",
     ",\"message\":\"", "Parse error", "\"}}" >>

\* the lines taken from the buffer are the complete lines read so far, each
\* once and in full, and what follows the last newline is kept in the buffer
TakenOnce ==
  /\ Len(taken) = LinesReceived
  /\ \A j \in 1..Len(taken) : taken[j] = LineReceived(j)
  /\ received = Stream(taken, buffer)

\* no line is answered twice and a blank line is not answered; the answer
\* to a line that is not JSON is the parse-error response, the answer to a
\* request carries the id of the request
AnsweredOnce ==
  /\ Len(stdout) = Len(answered)
  /\ \A j \in 1..MaxLines : Cardinality(AnswersTo(j)) <= 1
  /\ \A n \in DOMAIN answered :
       /\ answered[n] \in 1..Len(taken)
       /\ ~IsBlank(taken[answered[n]])
       /\ CASE taken[answered[n]] = T_list ->
                 stdout[n] = << "{\"jsonrpc\":\"2.0\",\"id\":", "1", ",\"result\":", "...", "}" >>
            [] taken[answered[n]] = T_servers ->
                 SubSeq(stdout[n], 1, 2) = << "{\"jsonrpc\":\"2.0\",\"id\":", "2" >>
            [] OTHER -> stdout[n] = ParseErrorLine

\* when no handler is suspended every line taken that is not blank has its
\* answer
AllAnswered ==
  (loops = << >>) =>
    \A j \in 1..Len(taken) : ~IsBlank(taken[j]) => Cardinality(AnswersTo(j)) = 1

\* line j was read with its newline and is not blank
Complete(j) == j <= LinesReceived /\ ~IsBlank(LineReceived(j))

====
